---- MODULE Spec2Model ----
(***************************************************************************)
(* NexusDocs scan and proposal engine: the scanner (lib/scanner) and the   *)
(* manual scan route that calls it, as one state machine.  A string is a   *)
(* sequence of one-character strings; a file content is a record           *)
(* [head, pad]: the units of head followed by pad filler characters, so    *)
(* that documents longer than the 80,000 character cap can be written.     *)
(***************************************************************************)
EXTENDS Integers, Sequences, FiniteSets, TLC

\* ---------------------------------------------------------------- bounds
MaxTreeFiles == 2
MaxTargets == 2
MaxBudget == 2
MaxFilesBudget == 2
MaxReports == 3
MaxPatternLen == 3
MaxPathLen == 3

\* ------------------------------------------------------ program constants
DEFAULT_MAX_FILES_TO_READ == 40
DEFAULT_MAX_FILE_BYTES == 200000
DEFAULT_MAX_TOTAL_CHARS == 220000
DEFAULT_DIGEST_MAX_TOTAL_EXCERPT_CHARS == 90000
DEFAULT_DIGEST_MAX_EXCERPT_CHARS_PER_FILE == 2500
DEFAULT_DIGEST_MAX_OUTPUT_TOKENS == 900
MAX_EXISTING_CHARS == 80000
THROTTLE_MS == 600
RETRY_FLOOR_TOKENS == 400

Null == [null |-> TRUE]
NoSize == -1

\* ------------------------------------------------------- string helpers
Min(a, b) == IF a < b THEN a ELSE b
Max(a, b) == IF a > b THEN a ELSE b

UpperChars == <<"A","B","C","D","E","F","G","H","I","J","K","L","M","N","O","P","Q","R","S","T","U","V","W","X","Y","Z">>
LowerChars == <<"a","b","c","d","e","f","g","h","i","j","k","l","m","n","o","p","q","r","s","t","u","v","w","x","y","z">>
Whitespace == {" ", "\n", "\t"}

LowerChar(c) ==
  IF \E k \in 1..26 : UpperChars[k] = c
  THEN LowerChars[CHOOSE k \in 1..26 : UpperChars[k] = c]
  ELSE c

toLowerCase(s) == [i \in 1..Len(s) |-> LowerChar(s[i])]

startsWith(s, p) == Len(p) <= Len(s) /\ SubSeq(s, 1, Len(p)) = p
endsWith(s, p) == Len(p) <= Len(s) /\ SubSeq(s, Len(s) - Len(p) + 1, Len(s)) = p
includes(s, sub) == \E i \in 0..(Len(s) - Len(sub)) : SubSeq(s, i + 1, i + Len(sub)) = sub

\* 0-based index of the first / last occurrence of character c, -1 when absent
indexOf(s, c) ==
  IF \E i \in 1..Len(s) : s[i] = c
  THEN (CHOOSE i \in 1..Len(s) : s[i] = c /\ \A j \in 1..(i - 1) : s[j] # c) - 1
  ELSE -1

lastIndexOf(s, c) ==
  IF \E i \in 1..Len(s) : s[i] = c
  THEN (CHOOSE i \in 1..Len(s) : s[i] = c /\ \A j \in (i + 1)..Len(s) : s[j] # c) - 1
  ELSE -1

RECURSIVE trimStart(_)
trimStart(s) == IF s # <<>> /\ Head(s) \in Whitespace THEN trimStart(Tail(s)) ELSE s

RECURSIVE trimEnd(_)
trimEnd(s) ==
  IF s # <<>> /\ s[Len(s)] \in Whitespace THEN trimEnd(SubSeq(s, 1, Len(s) - 1)) ELSE s

trim(s) == trimEnd(trimStart(s))

\* s.slice(from) and s.slice(0, to) for 0 <= from, to
sliceFrom(s, from) == SubSeq(s, from + 1, Len(s))
sliceTo(s, to) == SubSeq(s, 1, Min(to, Len(s)))

\* ------------------------------------------------------- file contents
Text(units) == [head |-> units, pad |-> 0]
EmptyText == Text(<<>>)
TextLen(d) == Len(d.head) + d.pad

\* text.slice(0, n) for n >= 0
TextSlice(d, n) ==
  IF n <= Len(d.head)
  THEN [head |-> SubSeq(d.head, 1, n), pad |-> 0]
  ELSE [head |-> d.head, pad |-> Min(d.pad, n - Len(d.head))]

\* text.trim(): the filler characters are not whitespace
TextTrim(d) ==
  IF d.pad > 0
  THEN [head |-> trimStart(d.head), pad |-> d.pad]
  ELSE [head |-> trim(d.head), pad |-> 0]

\* JavaScript truthiness of a string: non-empty
Truthy(d) == d # Null /\ TextLen(d) > 0

\* ------------------------------------------------------ path classifier
toPosixPath(p) == [i \in 1..Len(p) |-> IF p[i] = "\\" THEN "/" ELSE p[i]]

basename(p) ==
  LET s == toPosixPath(p)
      idx == lastIndexOf(s, "/")
  IN IF idx >= 0 THEN sliceFrom(s, idx + 1) ELSE s

extname(p) ==
  LET b == basename(p)
      dot == lastIndexOf(b, ".")
  IN IF dot >= 0 THEN toLowerCase(sliceFrom(b, dot)) ELSE <<>>

DEFAULT_IGNORED_PREFIXES ==
  { <<".","g","i","t","/">>, <<".","g","i","t","h","u","b","/">>, <<".","n","e","x","t","/">>, <<".","v","e","r","c","e","l","/">>, <<"n","o","d","e","_","m","o","d","u","l","e","s","/">>, <<"d","i","s","t","/">>,
    <<"b","u","i","l","d","/">>, <<"c","o","v","e","r","a","g","e","/">>, <<"o","u","t","/">>, <<"v","e","n","d","o","r","/">>, <<".","t","u","r","b","o","/">>, <<".","c","a","c","h","e","/">> }

DEFAULT_IGNORED_BASENAMES ==
  { <<"p","a","c","k","a","g","e","-","l","o","c","k",".","j","s","o","n">>, <<"p","n","p","m","-","l","o","c","k",".","y","a","m","l">>, <<"y","a","r","n",".","l","o","c","k">>, <<".","D","S","_","S","t","o","r","e">> }

BINARY_EXTENSIONS ==
  { <<".","p","n","g">>, <<".","j","p","g">>, <<".","j","p","e","g">>, <<".","g","i","f">>, <<".","w","e","b","p">>, <<".","i","c","o">>, <<".","p","d","f">>, <<".","z","i","p">>, <<".","g","z">>,
    <<".","t","a","r">>, <<".","t","g","z">>, <<".","7","z">>, <<".","e","x","e">>, <<".","d","l","l">>, <<".","s","o">>, <<".","d","y","l","i","b">>, <<".","w","o","f","f">>,
    <<".","w","o","f","f","2">>, <<".","t","t","f">>, <<".","e","o","t">>, <<".","m","p","3">>, <<".","m","p","4">>, <<".","m","o","v">>, <<".","a","v","i">>, <<".","m","k","v">> }

isIgnoredPath(p) ==
  LET path == toPosixPath(p)
  IN \/ path = <<>>
     \/ basename(path) \in DEFAULT_IGNORED_BASENAMES
     \/ \E prefix \in DEFAULT_IGNORED_PREFIXES : startsWith(path, prefix)

isProbablyTextFile(p) ==
  LET ext == extname(p)
  IN IF ext = <<>> THEN TRUE ELSE ext \notin BINARY_EXTENSIONS

\* ------------------------------------------------------ glob matcher
\* The regular expression built by globToRegExp, as the list of its parts:
\*   [^/]*  "segment run"     .*  "any run"     (?:.*/)?  "directories"
\*   [^/]   "segment char"    and a literal character (escaped where needed)
SegmentRun == [re |-> "[^/]*"]
AnyRun == [re |-> ".*"]
Directories == [re |-> "(?:.*/)?"]
SegmentChar == [re |-> "[^/]"]
Literal(ch) == [re |-> "literal", ch |-> ch]

\* the characters the dot of a regular expression does not match
LineTerminators == {"\n", "\r"}

charAt(s, i) == IF i <= Len(s) THEN s[i] ELSE ""

\* lines 119-150: the translation loop from position i of pat
RECURSIVE translateFrom(_, _)
translateFrom(pat, i) ==
  IF i > Len(pat) THEN <<>>
  ELSE IF pat[i] = "*"
    THEN IF charAt(pat, i + 1) = "*"
         THEN IF charAt(pat, i + 2) = "/"
              THEN <<Directories>> \o translateFrom(pat, i + 3)
              ELSE <<AnyRun>> \o translateFrom(pat, i + 2)
         ELSE <<SegmentRun>> \o translateFrom(pat, i + 1)
  ELSE IF pat[i] = "?" THEN <<SegmentChar>> \o translateFrom(pat, i + 1)
  ELSE <<Literal(pat[i])>> \o translateFrom(pat, i + 1)

globToRegExp(pattern) == translateFrom(trim(toPosixPath(pattern)), 1)

\* the characters of p from position j to k - 1
noneIn(p, j, k, chars) == \A n \in j..(k - 1) : p[n] \notin chars

\* RegExp.prototype.test of ^re$: the parts from place t on match p from
\* position j to its end
RECURSIVE testFrom(_, _, _, _)
testFrom(re, t, p, j) ==
  IF t > Len(re) THEN j > Len(p)
  ELSE IF re[t] = SegmentRun
    THEN \E k \in j..(Len(p) + 1) : noneIn(p, j, k, {"/"}) /\ testFrom(re, t + 1, p, k)
  ELSE IF re[t] = AnyRun
    THEN \E k \in j..(Len(p) + 1) :
           noneIn(p, j, k, LineTerminators) /\ testFrom(re, t + 1, p, k)
  ELSE IF re[t] = Directories
    THEN \/ testFrom(re, t + 1, p, j)
         \/ \E k \in (j + 1)..(Len(p) + 1) :
              /\ p[k - 1] = "/"
              /\ noneIn(p, j, k - 1, LineTerminators)
              /\ testFrom(re, t + 1, p, k)
  ELSE IF re[t] = SegmentChar
    THEN j <= Len(p) /\ p[j] # "/" /\ testFrom(re, t + 1, p, j + 1)
  ELSE j <= Len(p) /\ p[j] = re[t].ch /\ testFrom(re, t + 1, p, j + 1)

anyGlobMatches(patterns, path) ==
  IF Len(patterns) = 0 THEN FALSE
  ELSE LET p == toPosixPath(path)
       IN \E n \in 1..Len(patterns) : testFrom(globToRegExp(patterns[n]), 1, p, 1)

\* ------------------------------------------------------ output path
inferOutputPathFromGlob(globPattern, fallbackDir, fallbackFile) ==
  LET pattern == trim(toPosixPath(globPattern))
      firstStar == indexOf(pattern, "*")
      firstQ == indexOf(pattern, "?")
      hits == {n \in {firstStar, firstQ} : n >= 0}
      cutAt == IF hits = {} THEN -1 ELSE CHOOSE n \in hits : \A m \in hits : n <= m
      plainDir == IF endsWith(pattern, <<"/">>) THEN sliceTo(pattern, Len(pattern) - 1) ELSE pattern
      prefix == sliceTo(pattern, cutAt)
      dir == IF endsWith(prefix, <<"/">>) THEN sliceTo(prefix, Len(prefix) - 1) ELSE prefix
  IN IF pattern = <<>> THEN fallbackDir \o <<"/">> \o fallbackFile
     ELSE IF cutAt = -1
       THEN IF endsWith(toLowerCase(pattern), <<".","m","d">>) THEN pattern
            ELSE plainDir \o <<"/">> \o fallbackFile
     ELSE IF dir = <<>> THEN fallbackDir \o <<"/">> \o fallbackFile
     ELSE dir \o <<"/">> \o fallbackFile

\* the fallback directory chosen from the target's type
fallbackDirOf(type) ==
  LET t == toLowerCase(type)
  IN IF includes(t, <<"a","p","i">>) THEN <<"d","o","c","s","/","a","p","i">>
     ELSE IF includes(t, <<"a","r","c","h","i","t","e","c","t","u","r","e">>) THEN <<"d","o","c","s","/","a","r","c","h","i","t","e","c","t","u","r","e">>
     ELSE IF includes(t, <<"t","u","t","o","r","i","a","l">>) THEN <<"d","o","c","s","/","t","u","t","o","r","i","a","l","s">>
     ELSE IF includes(t, <<"u","s","e","r"," ","g","u","i","d","e">>) \/ includes(t, <<"g","u","i","d","e">>) THEN <<"d","o","c","s","/","g","u","i","d","e","s">>
     ELSE <<"d","o","c","s">>

\* target.paths?.find(Boolean) || ""
firstGlobOf(target) ==
  IF \E i \in 1..Len(target.paths) : target.paths[i] # <<>>
  THEN target.paths[CHOOSE i \in 1..Len(target.paths) :
                      target.paths[i] # <<>> /\ \A j \in 1..(i - 1) : target.paths[j] = <<>>]
  ELSE <<>>

outputPathOf(target) ==
  inferOutputPathFromGlob(firstGlobOf(target), fallbackDirOf(target.type), <<"R","E","A","D","M","E",".","m","d">>)

\* lines 795-798: the test generateDocWithLLM makes before it picks its rules;
\* target.paths[0] is read as "" when the list is empty
isReadmeRewrite(target) ==
  \/ includes(toLowerCase(target.type), <<"r","e","a","d","m","e">>)
  \/ /\ Len(target.paths) > 0
     /\ endsWith(toLowerCase(target.paths[1]), <<"r","e","a","d","m","e",".","m","d">>)

isReadmeTarget(targetType, outputPath) ==
  \/ includes(toLowerCase(targetType), <<"r","e","a","d","m","e">>)
  \/ endsWith(toLowerCase(outputPath), <<"r","e","a","d","m","e",".","m","d">>)

\* --------------------------------------------------- candidate selector
PreferredPaths ==
  { <<"p","a","c","k","a","g","e",".","j","s","o","n">>, <<"R","E","A","D","M","E",".","m","d">>, <<"r","e","a","d","m","e",".","m","d">>, <<"n","e","x","t",".","c","o","n","f","i","g",".","j","s">>, <<"n","e","x","t",".","c","o","n","f","i","g",".","m","j","s">>,
    <<"s","r","c","/","a","p","p","/","a","p","i">>, <<"s","r","c","/","p","a","g","e","s","/","a","p","i">>, <<"p","r","i","s","m","a","/","s","c","h","e","m","a",".","p","r","i","s","m","a">> }

isApiRouteFile(p) == startsWith(p, <<"s","r","c","/","a","p","p","/","a","p","i","/">>) /\ endsWith(p, <<"/","r","o","u","t","e",".","j","s">>)

scoreOf(path) ==
  LET p == toPosixPath(path)
  IN (IF p \in PreferredPaths THEN 100 ELSE 0)
     + (IF isApiRouteFile(p) THEN 80 ELSE 0)
     + (IF p = <<"p","a","c","k","a","g","e",".","j","s","o","n">> THEN 120 ELSE 0)
     + (IF toLowerCase(p) = <<"r","e","a","d","m","e",".","m","d">> THEN 110 ELSE 0)
     + (IF startsWith(p, <<"s","r","c","/">>) THEN 20 ELSE 0)
     + (IF startsWith(p, <<"a","p","p","/">>) THEN 10 ELSE 0)
     + (IF endsWith(p, <<".","m","d">>) \/ endsWith(p, <<".","m","d","x">>) THEN 5 ELSE 0)

passesFilters(f) ==
  /\ ~isIgnoredPath(f.path)
  /\ isProbablyTextFile(f.path)
  /\ (IF f.size # NoSize THEN f.size <= DEFAULT_MAX_FILE_BYTES ELSE TRUE)

RECURSIVE filterFiles(_)
filterFiles(s) ==
  IF s = <<>> THEN <<>>
  ELSE IF passesFilters(Head(s)) THEN <<Head(s)>> \o filterFiles(Tail(s))
  ELSE filterFiles(Tail(s))

\* insertion that puts x before the entries of the same score
RECURSIVE insertByScore_BeforeEqual(_, _)
insertByScore_BeforeEqual(sorted, x) ==
  IF sorted = <<>> THEN <<x>>
  ELSE IF Head(sorted).score > x.score
  THEN <<Head(sorted)>> \o insertByScore_BeforeEqual(Tail(sorted), x)
  ELSE <<x>> \o sorted

\* stable insertion of x into a sequence sorted by descending score
RECURSIVE insertByScore(_, _)
insertByScore(sorted, x) ==
  IF sorted = <<>> THEN <<x>>
  ELSE IF Head(sorted).score >= x.score THEN <<Head(sorted)>> \o insertByScore(Tail(sorted), x)
  ELSE <<x>> \o sorted

RECURSIVE sortByScore(_)
sortByScore(s) ==
  IF s = <<>> THEN <<>>
  ELSE insertByScore(sortByScore(SubSeq(s, 1, Len(s) - 1)), s[Len(s)])

pickCandidateFiles(files) ==
  LET kept == filterFiles(files)
      scored == [i \in 1..Len(kept) |->
                   [path |-> kept[i].path, size |-> kept[i].size, sha |-> kept[i].sha,
                    score |-> scoreOf(kept[i].path)]]
  IN sortByScore(scored)

\* ------------------------------------------------------ contents map
\* contentsByPath is a Map: a sequence of [path, content] in insertion order
mapHas(m, k) == \E i \in 1..Len(m) : m[i].path = k
mapGet(m, k) == IF mapHas(m, k) THEN m[CHOOSE i \in 1..Len(m) : m[i].path = k].content ELSE Null
mapSet(m, k, v) ==
  IF mapHas(m, k)
  THEN [i \in 1..Len(m) |-> IF m[i].path = k THEN [path |-> k, content |-> v] ELSE m[i]]
  ELSE Append(m, [path |-> k, content |-> v])

RECURSIVE sumLens(_)
sumLens(m) == IF m = <<>> THEN 0 ELSE TextLen(Head(m).content) + sumLens(Tail(m))

\* the fetch loop without the cut to the remaining budget
trimToBudget_Uncut(text, remaining) == text

\* line 972: the text cut to the remaining budget
trimToBudget(text, remaining) ==
  IF TextLen(text) > remaining THEN TextSlice(text, remaining) ELSE text

\* ------------------------------------------------------ manifest parsing
ManifestMembers ==
  {"dep:next", "dep:prisma", "dep:@prisma/client", "dep:next-auth", "script:dev", "script:start"}

\* JSON.parse of the fetched package.json: Null when it throws
parsePackageJson(text) ==
  LET h == text.head
      n == Len(h)
  IN IF text.pad = 0 /\ n >= 2 /\ h[1] = "{" /\ h[n] = "}"
        /\ \A i \in 2..(n - 1) : h[i] \in ManifestMembers
     THEN [members |-> {h[i] : i \in 2..(n - 1)}]
     ELSE Null

packageJsonOf(contents) ==
  LET pkgRaw == mapGet(contents, <<"p","a","c","k","a","g","e",".","j","s","o","n">>)
  IN IF Truthy(pkgRaw) THEN parsePackageJson(pkgRaw) ELSE Null

\* a manifest read as if it declared nothing
hasMember_None(packageJson, m) == FALSE

hasMember(packageJson, m) == packageJson # Null /\ m \in packageJson.members

\* -------------------------------------------------------- api routes
MethodNames == <<"GET", "POST", "PUT", "PATCH", "DELETE">>
AsyncExports ==
  <<"export async function GET", "export async function POST", "export async function PUT",
    "export async function PATCH", "export async function DELETE">>
PlainExports ==
  <<"export function GET", "export function POST", "export function PUT",
    "export function PATCH", "export function DELETE">>

\* content.includes(literal): a content is a list of declarations, one unit each
declaresMethod(content, k) ==
  /\ content # Null
  /\ \E i \in 1..Len(content.head) : content.head[i] \in {AsyncExports[k], PlainExports[k]}

\* lines 255-261: the methods found, GET when none is
routeMethods(content) ==
  LET methods == SelectSeq(MethodNames,
                   LAMBDA m : \E k \in 1..5 : MethodNames[k] = m /\ declaresMethod(content, k))
  IN IF Len(methods) > 0 THEN methods ELSE <<"GET">>

\* lines 251-252: the path below src/app/api/ without a trailing /route.js,
\* after /api/, with every "[" turned into ":" and every "]" removed
apiPathOf(p) ==
  LET below == sliceFrom(p, 12)
      rel == IF endsWith(below, <<"/","r","o","u","t","e",".","j","s">>)
             THEN sliceTo(below, Len(below) - 9) ELSE below
      full == <<"/","a","p","i","/">> \o rel
      colons == [i \in 1..Len(full) |-> IF full[i] = "[" THEN ":" ELSE full[i]]
  IN SelectSeq(colons, LAMBDA c : c # "]")

\* String.prototype.localeCompare in the root collation, for the characters
\* below: punctuation sorts before digits and digits before letters
CollationOrder ==
  <<"_", "-", ":", ".", "(", ")", "[", "]", "/", "0", "1", "2", "3", "4", "5", "6", "7", "8", "9">>
  \o LowerChars

collationRank(c) == CHOOSE r \in 1..Len(CollationOrder) : CollationOrder[r] = c

\* a.localeCompare(b) <= 0
RECURSIVE localeNotAfter(_, _)
localeNotAfter(a, b) ==
  IF a = <<>> THEN TRUE
  ELSE IF b = <<>> THEN FALSE
  ELSE IF Head(a) = Head(b) THEN localeNotAfter(Tail(a), Tail(b))
  ELSE collationRank(Head(a)) < collationRank(Head(b))

\* stable insertion of x into a list sorted by apiPath
RECURSIVE insertByApiPath(_, _)
insertByApiPath(sorted, x) ==
  IF sorted = <<>> THEN <<x>>
  ELSE IF localeNotAfter(Head(sorted).apiPath, x.apiPath)
  THEN <<Head(sorted)>> \o insertByApiPath(Tail(sorted), x)
  ELSE <<x>> \o sorted

\* line 264: routes.sort((a, b) => a.apiPath.localeCompare(b.apiPath))
RECURSIVE sortByApiPath(_)
sortByApiPath(routes) ==
  IF routes = <<>> THEN <<>>
  ELSE insertByApiPath(sortByApiPath(SubSeq(routes, 1, Len(routes) - 1)), routes[Len(routes)])

\* lines 248-262: one entry per route file, in file order
RECURSIVE routesOfFiles(_, _)
routesOfFiles(files, contents) ==
  IF files = <<>> THEN <<>>
  ELSE LET p == toPosixPath(Head(files).path)
           rest == routesOfFiles(Tail(files), contents)
       IN IF isApiRouteFile(p)
          THEN <<[apiPath |-> apiPathOf(p), methods |-> routeMethods(mapGet(contents, p))]>> \o rest
          ELSE rest

extractApiRoutesFromFiles(files, contents) == sortByApiPath(routesOfFiles(files, contents))

\* ---------------------------------------------------------- templates
\* The generated documents, one unit per heading or line group.
generateReadmeTemplate(packageJson, apiRoutes, filePaths) ==
  LET usesPrisma == hasMember(packageJson, "dep:prisma")
                    \/ hasMember(packageJson, "dep:@prisma/client")
      usesNextAuth == hasMember(packageJson, "dep:next-auth")
      hasDev == hasMember(packageJson, "script:dev")
      hasStart == hasMember(packageJson, "script:start")
      hasScripts == hasDev \/ hasStart
      techStack == hasMember(packageJson, "dep:next") \/ usesPrisma \/ usesNextAuth
      hasDocker == \E i \in 1..Len(filePaths) : toLowerCase(filePaths[i]) = <<"d","o","c","k","e","r","f","i","l","e">>
  IN Text(<<"# Project", "## Features">>
          \o (IF techStack THEN <<"## Tech Stack">> ELSE <<>>)
          \o <<"## Getting Started", "npm install">>
          \o (IF hasDev THEN <<"npm run dev">> ELSE IF hasStart THEN <<"npm start">> ELSE <<>>)
          \o <<"### Environment Variables">>
          \o (IF usesPrisma THEN <<"DATABASE_URL">> ELSE <<>>)
          \o (IF usesNextAuth THEN <<"AUTH_SECRET">> ELSE <<>>)
          \o (IF ~usesPrisma /\ ~usesNextAuth THEN <<"EXAMPLE_VAR">> ELSE <<>>)
          \o (IF usesPrisma THEN <<"### Database Setup (Prisma)">> ELSE <<>>)
          \o <<"## Project Structure">>
          \o (IF apiRoutes # <<>> THEN <<"## Routes", "## API Endpoints">> ELSE <<>>)
          \o <<"## Security Notes">>
          \o (IF hasScripts THEN <<"## Development">> ELSE <<>>)
          \o (IF hasDocker THEN <<"## Docker">> ELSE <<>>)
          \o <<"## License", "\n">>)

generateMarkdownDocs(targetType, packageJson, apiRoutes) ==
  LET t == toLowerCase(targetType)
      isApi == includes(t, <<"a","p","i">>)
      isArch == includes(t, <<"a","r","c","h","i","t","e","c","t","u","r","e">>)
      isTut == includes(t, <<"t","u","t","o","r","i","a","l">>)
      isGuide == includes(t, <<"u","s","e","r"," ","g","u","i","d","e">>) \/ includes(t, <<"g","u","i","d","e">>)
  IN Text(<<"# Title">>
          \o (IF isApi THEN <<"## API Reference">> ELSE <<>>)
          \o (IF isApi /\ apiRoutes # <<>> THEN <<"### Endpoints">> ELSE <<>>)
          \o (IF isArch THEN <<"## Architecture">> ELSE <<>>)
          \o (IF isTut THEN <<"## Tutorial">> ELSE <<>>)
          \o (IF isGuide THEN <<"## User Guide">> ELSE <<>>)
          \o (IF ~isApi /\ ~isArch /\ ~isTut /\ ~isGuide THEN <<"## Overview">> ELSE <<>>)
          \o <<"\n">>)

\* the fallback keeping whatever the lookup returned for a non-README target,
\* an empty document included
fallbackMarkdown_KeepAny(target, outputPath, existingMarkdown, packageJson, apiRoutes, filePaths) ==
  IF ~isReadmeTarget(target.type, outputPath)
  THEN existingMarkdown
  ELSE generateReadmeTemplate(packageJson, apiRoutes, filePaths)

\* lines 1080-1104: the built-in generator
fallbackMarkdown(target, outputPath, existingMarkdown, packageJson, apiRoutes, filePaths) ==
  LET readmeTarget == isReadmeTarget(target.type, outputPath)
  IN IF ~readmeTarget /\ Truthy(existingMarkdown) /\ Truthy(TextTrim(existingMarkdown))
     THEN existingMarkdown
     ELSE IF readmeTarget THEN generateReadmeTemplate(packageJson, apiRoutes, filePaths)
     ELSE generateMarkdownDocs(target.type, packageJson, apiRoutes)

\* ------------------------------------------------------ configuration
DefaultTargets == << [type |-> <<"R","E","A","D","M","E">>, paths |-> << <<"R","E","A","D","M","E",".","m","d">> >>, enabled |-> TRUE] >>

\* hasDocsPathsConfigured: unset and the empty array both count as not configured;
\* <<>> stands for the two
hasDocsPathsConfigured(docsPaths) == docsPaths # <<>>

RECURSIVE enabledOnly(_)
enabledOnly(ts) ==
  IF ts = <<>> THEN <<>>
  ELSE IF Head(ts).enabled THEN <<Head(ts)>> \o enabledOnly(Tail(ts))
  ELSE enabledOnly(Tail(ts))

pickDocTargets(docsPaths) ==
  LET enabled == enabledOnly(docsPaths)
  IN [i \in 1..Len(enabled) |->
        [type |-> enabled[i].type,
         paths |-> [j \in 1..Len(enabled[i].paths) |-> toPosixPath(enabled[i].paths[j])],
         enabled |-> TRUE]]

enabledTargetsOf(docsPaths) ==
  IF hasDocsPathsConfigured(docsPaths) THEN pickDocTargets(docsPaths) ELSE DefaultTargets

maxFilesToReadOf(lim) == IF lim = Null THEN DEFAULT_MAX_FILES_TO_READ ELSE lim.maxFilesToRead
maxTotalCharsOf(lim) == IF lim = Null THEN DEFAULT_MAX_TOTAL_CHARS ELSE lim.maxTotalChars

\* Number(process.env.OPENAI_DIGEST_MAX_OUTPUT_TOKENS) || DEFAULT (0: unset or not a number)
maxOutputTokensOf(capEnv) == IF capEnv = 0 THEN DEFAULT_DIGEST_MAX_OUTPUT_TOKENS ELSE capEnv

\* Math.max(400, Math.floor(maxOutputTokens * 0.7)); \div is the floor
retryOutputTokens(maxOutputTokens) == Max(RETRY_FLOOR_TOKENS, (maxOutputTokens * 7) \div 10)

\* the retry test looking at the status alone
isTooLarge_Any429(err) == err.status = 429

\* line 775: the error that triggers the single retry
isTooLarge(err) == err.status = 429 /\ err.sizeMessage

BuiltIn == "Built-in generator"
OpenAILabel == "OpenAI (read, write)"

\* -------------------------------------------------------------- state
VARIABLES
  pc,              \* position of the POST handler and of the scan it awaits
  docsPaths,       \* project.settings.docsPaths
  limits,          \* the limits argument of the scan, Null when not passed
  hasOpenAI,       \* OPENAI_API_KEY is set
  capEnv,          \* OPENAI_DIGEST_MAX_OUTPUT_TOKENS
  repo,            \* the documentation files at the scanned ref: path -> text or Null
  allFiles, toRead, fi, contentsByPath, remaining,
  repoDigest, modelLabel,
  ti, existingMarkdown, proposals,
  pending,         \* the external request in flight, Null when none
  requests,        \* the external requests answered so far, with their outcome
  scanRec,         \* the scan row in the database
  updater,         \* createScanProgressUpdater closure: sinceWrite, last
  forwarded,       \* the progress updates the updater wrote, in order
  emitted,         \* every progress object handed to the updater, in order
  scanResult, di, proposalFiles, proposalRec,
  thrown,          \* the error that left the scan, Null when none
  args,            \* the arguments of a pure function called on its own
  result,          \* what that call returned, Null before it returns
  openaiClient,    \* the module-level client of openai.js exists
  current,         \* the scan whose step the event loop runs: 1 or 2
  other,           \* the state of the scan that waits meanwhile, Null when there is none
  scans,           \* the scan rows of one project in the database, in order of creation
  handlers         \* the cron invocations and manual scan requests that arrived

vars == <<pc, docsPaths, limits, hasOpenAI, capEnv, repo, allFiles, toRead, fi, contentsByPath,
          remaining, repoDigest, modelLabel, ti, existingMarkdown, proposals, pending, requests,
          scanRec, updater, forwarded, emitted, scanResult, di, proposalFiles, proposalRec, thrown,
          args, result, openaiClient, current, other, scans, handlers>>

\* the call of a pure function on its own; a scan leaves it alone
callVars == <<args, result>>
scanVars == <<docsPaths, limits, hasOpenAI, capEnv, repo, allFiles, toRead, fi, contentsByPath,
              remaining, repoDigest, modelLabel, ti, existingMarkdown, proposals, pending,
              requests, scanRec, updater, forwarded, emitted, scanResult, di, proposalFiles,
              proposalRec, thrown>>
pairVars == <<current, other>>
tableVars == <<scans, handlers>>
envVars == <<docsPaths, limits, hasOpenAI, capEnv, repo, callVars, pairVars, tableVars>>
configVars == <<envVars, openaiClient>>
fetchVars == <<allFiles, toRead, fi, contentsByPath, remaining>>
digestVars == <<repoDigest, modelLabel>>
targetVars == <<ti, existingMarkdown, proposals>>
routeVars == <<scanResult, di, proposalFiles, proposalRec>>
progressVars == <<scanRec, updater, forwarded, emitted>>

enabledTargets == enabledTargetsOf(docsPaths)
packageJson == packageJsonOf(contentsByPath)
apiRoutes == extractApiRoutesFromFiles(toRead, contentsByPath)
filePaths == [i \in 1..Len(allFiles) |-> toPosixPath(allFiles[i].path)]

\* ------------------------------------------------------ progress sink
\* a JavaScript number in tenths, or a value Number() does not make finite
Num(n) == [finite |-> TRUE, tenths |-> 10 * n]
Tenths(t) == [finite |-> TRUE, tenths |-> t]
NaN == [finite |-> FALSE, tenths |-> 0]

\* Math.round rounds a half up: floor(x + 0.5)
clampPercent(value) ==
  IF ~value.finite THEN 0 ELSE Max(0, Min(100, (value.tenths + 5) \div 10))

Progress(phase, percent, message) == [phase |-> phase, percent |-> Num(percent), message |-> message]

\* an updater that writes every changed update, however soon after the last
updateProgress_NoThrottle(st, progress, dt) ==
  LET entry == [percent |-> clampPercent(progress.percent), phase |-> progress.phase,
                message |-> progress.message]
      since == Min(THROTTLE_MS, st.upd.sinceWrite + dt)
  IN IF st.upd.last # Null /\ st.upd.last = entry
     THEN [st EXCEPT !.upd.sinceWrite = since, !.log = Append(st.log, progress)]
     ELSE [upd |-> [sinceWrite |-> 0, last |-> entry],
           rec |-> [st.rec EXCEPT !.progressPercent = entry.percent,
                                  !.progressPhase = entry.phase,
                                  !.progressMessage = entry.message],
           fwd |-> Append(st.fwd, [update |-> entry, since |-> since]),
           log |-> Append(st.log, progress)]

\* updateProgress after dt more milliseconds; st is [upd, rec, fwd, log]
updateProgress(st, progress, dt) ==
  LET entry == [percent |-> clampPercent(progress.percent), phase |-> progress.phase,
                message |-> progress.message]
      since == Min(THROTTLE_MS, st.upd.sinceWrite + dt)
      changed == st.upd.last = Null \/ st.upd.last # entry
      throttleOk == since >= THROTTLE_MS
  IN IF ~changed \/ ~throttleOk
     THEN [st EXCEPT !.upd.sinceWrite = since, !.log = Append(st.log, progress)]
     ELSE [upd |-> [sinceWrite |-> 0, last |-> entry],
           rec |-> [st.rec EXCEPT !.progressPercent = entry.percent,
                                  !.progressPhase = entry.phase,
                                  !.progressMessage = entry.message],
           fwd |-> Append(st.fwd, [update |-> entry, since |-> since]),
           log |-> Append(st.log, progress)]

progressState == [upd |-> updater, rec |-> scanRec, fwd |-> forwarded, log |-> emitted]

SetProgress(st) ==
  /\ updater' = st.upd
  /\ scanRec' = st.rec
  /\ forwarded' = st.fwd
  /\ emitted' = st.log

\* lines 336-345: the failure write of the route
failedRec(rec, message) ==
  [rec EXCEPT !.status = "failed", !.progressPhase = "failed",
              !.progressMessage = message, !.errorMessage = message]

\* lines 285-297: the completion write of the route
completedRec(rec, filesScanned, finalMessage) ==
  [rec EXCEPT !.status = "completed", !.filesScanned = filesScanned,
              !.progressPercent = 100, !.progressPhase = "done",
              !.progressMessage = finalMessage, !.errorMessage = Null]

\* the completion sent through the throttled updater instead of a direct write
completionWrite_Throttled(st, filesScanned, finalMessage, dt) ==
  LET sent == updateProgress(st, Progress("done", 100, finalMessage), dt)
  IN [sent EXCEPT !.rec.status = "completed", !.rec.filesScanned = filesScanned]

\* the completion write goes straight to the database, not through the updater
completionWrite(st, filesScanned, finalMessage, dt) ==
  [st EXCEPT !.rec = completedRec(st.rec, filesScanned, finalMessage)]

\* the catch block of the route, reached by an error that left the scan
FailScan(err, rec) ==
  /\ thrown' = err
  /\ scanRec' = failedRec(rec, <<"Scan failed", err.from>>)
  /\ pc' = "failed"
  /\ pending' = Null

Answered(outcome) == Append(requests, [req |-> pending, outcome |-> outcome])

\* ------------------------------------------------------------ actions
\* Every action takes the world W: the sets its inputs are drawn from.

NewScanRec ==
  [status |-> "running", filesScanned |-> 0, progressPercent |-> 0, progressPhase |-> "init",
   progressMessage |-> <<"Starting scan", <<>>>>, errorMessage |-> Null]

\* route lines 182-213 and scanner lines 931-942: create the scan row, report
\* 'init' and 'tree', request the repository tree
StartScan(W) ==
  /\ pc = "start"
  /\ \E dt1 \in W.ticks, dt2 \in W.ticks :
       LET st0 == [upd |-> [sinceWrite |-> THROTTLE_MS, last |-> Null],
                   rec |-> NewScanRec, fwd |-> <<>>, log |-> <<>>]
           st1 == updateProgress(st0, Progress("init", 1, <<"Starting scan", <<>>>>), dt1)
           st2 == updateProgress(st1, Progress("tree", 5, <<"Listing repository files", <<>>>>), dt2)
       IN SetProgress(st2)
  /\ pending' = [api |-> "tree"]
  /\ pc' = "tree_wait"
  /\ UNCHANGED <<configVars, fetchVars, digestVars, targetVars, requests, routeVars, thrown>>

\* listRepoTree answers: an error leaves the scan, a listing starts the fetch loop
TreeResponse(W) ==
  /\ pc = "tree_wait"
  /\ \E resp \in W.treeResponses :
       /\ requests' = Answered([kind |-> resp.kind])
       /\ IF resp.kind = "error"
          THEN /\ FailScan([from |-> "tree"], scanRec)
               /\ UNCHANGED <<fetchVars, updater, forwarded, emitted>>
          ELSE /\ allFiles' = resp.files
               /\ toRead' = sliceTo(pickCandidateFiles(resp.files), maxFilesToReadOf(limits))
               /\ contentsByPath' = <<>>
               /\ remaining' = maxTotalCharsOf(limits)
               /\ fi' = 1
               /\ pc' = "fetch_loop"
               /\ pending' = Null
               /\ UNCHANGED <<progressVars, thrown>>
  /\ UNCHANGED <<configVars, digestVars, targetVars, routeVars>>

\* the read progress spread over the whole 0..100 range
readPercent_OfHundred(idx, readCount) == Min(100, 10 + ((200 * idx + readCount) \div (2 * readCount)))

readPercent(idx, readCount) == Min(55, 10 + ((90 * idx + readCount) \div (2 * readCount)))

\* the fetch loop without the stop at a used-up budget
FetchLoop_NoBreak(W) ==
  /\ pc = "fetch_loop"
  /\ IF fi > Len(toRead)
     THEN /\ pc' = "summarize"
          /\ UNCHANGED <<fi, pending, progressVars>>
     ELSE IF toRead[fi].sha = ""
     THEN /\ fi' = fi + 1
          /\ UNCHANGED <<pc, pending, progressVars>>
     ELSE /\ \E dt \in W.ticks :
               LET readCount == IF Len(toRead) = 0 THEN 1 ELSE Len(toRead)
                   idx == Len(contentsByPath)
                   path == toPosixPath(toRead[fi].path)
               IN SetProgress(updateProgress(progressState,
                    Progress("read_files", readPercent(idx, readCount), <<"Reading ", path>>), dt))
          /\ pending' = [api |-> "blob", sha |-> toRead[fi].sha]
          /\ pc' = "blob_wait"
          /\ UNCHANGED fi
  /\ UNCHANGED <<configVars, allFiles, toRead, contentsByPath, remaining, digestVars, targetVars,
                 requests, routeVars, thrown>>

\* lines 957-971: the head of the fetch loop up to the blob request
FetchLoop(W) ==
  /\ pc = "fetch_loop"
  /\ IF fi > Len(toRead)
     THEN /\ pc' = "summarize"
          /\ UNCHANGED <<fi, pending, progressVars>>
     ELSE IF toRead[fi].sha = ""
     THEN /\ fi' = fi + 1
          /\ UNCHANGED <<pc, pending, progressVars>>
     ELSE IF remaining <= 0
     THEN /\ pc' = "summarize"
          /\ UNCHANGED <<fi, pending, progressVars>>
     ELSE /\ \E dt \in W.ticks :
               LET readCount == IF Len(toRead) = 0 THEN 1 ELSE Len(toRead)
                   idx == Len(contentsByPath)
                   path == toPosixPath(toRead[fi].path)
               IN SetProgress(updateProgress(progressState,
                    Progress("read_files", readPercent(idx, readCount), <<"Reading ", path>>), dt))
          /\ pending' = [api |-> "blob", sha |-> toRead[fi].sha]
          /\ pc' = "blob_wait"
          /\ UNCHANGED fi
  /\ UNCHANGED <<configVars, allFiles, toRead, contentsByPath, remaining, digestVars, targetVars,
                 requests, routeVars, thrown>>

\* the fetch loop reading a failed blob request as an empty file
BlobResponse_Swallow(W) ==
  /\ pc = "blob_wait"
  /\ \E resp \in W.blobResponses :
       LET text == IF resp.kind = "error" THEN EmptyText ELSE resp.text
           trimmed == trimToBudget(text, remaining)
       IN /\ requests' = Answered(resp)
          /\ contentsByPath' = mapSet(contentsByPath, toPosixPath(toRead[fi].path), trimmed)
          /\ remaining' = remaining - TextLen(trimmed)
          /\ fi' = fi + 1
          /\ pc' = "fetch_loop"
          /\ pending' = Null
          /\ UNCHANGED <<progressVars, thrown>>
  /\ UNCHANGED <<configVars, allFiles, toRead, digestVars, targetVars, routeVars>>

\* lines 971-974: getBlobContent answers
BlobResponse(W) ==
  /\ pc = "blob_wait"
  /\ \E resp \in W.blobResponses :
       /\ requests' = Answered(resp)
       /\ IF resp.kind = "error"
          THEN /\ FailScan([from |-> "blob"], scanRec)
               /\ UNCHANGED <<contentsByPath, remaining, fi, updater, forwarded, emitted>>
          ELSE LET trimmed == trimToBudget(resp.text, remaining)
               IN /\ contentsByPath' = mapSet(contentsByPath, toPosixPath(toRead[fi].path), trimmed)
                  /\ remaining' = remaining - TextLen(trimmed)
                  /\ fi' = fi + 1
                  /\ pc' = "fetch_loop"
                  /\ pending' = Null
                  /\ UNCHANGED <<progressVars, thrown>>
  /\ UNCHANGED <<configVars, allFiles, toRead, digestVars, targetVars, routeVars>>

\* ------------------------------------------------ digest prompt files
priorityPaths ==
  << <<"p","a","c","k","a","g","e",".","j","s","o","n">>, <<"R","E","A","D","M","E",".","m","d">>,
     <<"r","e","a","d","m","e",".","m","d">>, <<"n","e","x","t",".","c","o","n","f","i","g",".","j","s">>,
     <<"n","e","x","t",".","c","o","n","f","i","g",".","m","j","s">>,
     <<"p","r","i","s","m","a","/","s","c","h","e","m","a",".","p","r","i","s","m","a">> >>

\* Number(process.env.X) || fallback; env is 0 when unset or not a number
envNumberOr(env, fallback) == IF env = 0 THEN fallback ELSE env

\* lines 669-675: the first entry of each priority path that was fetched
RECURSIVE priorityEntries(_, _)
priorityEntries(entries, k) ==
  IF k > Len(priorityPaths) THEN <<>>
  ELSE IF \E i \in 1..Len(entries) : entries[i].path = priorityPaths[k]
    THEN <<entries[CHOOSE i \in 1..Len(entries) :
                     /\ entries[i].path = priorityPaths[k]
                     /\ \A j \in 1..(i - 1) : entries[j].path # priorityPaths[k]]>>
         \o priorityEntries(entries, k + 1)
  ELSE priorityEntries(entries, k + 1)

\* lines 676-680: the entries not seen yet, in Map order
RECURSIVE unseenEntries(_, _, _)
unseenEntries(entries, i, seen) ==
  IF i > Len(entries) THEN <<>>
  ELSE IF entries[i].path \in seen THEN unseenEntries(entries, i + 1, seen)
  ELSE <<entries[i]>> \o unseenEntries(entries, i + 1, seen \cup {entries[i].path})

orderedEntriesOf(contents) ==
  LET entries == [i \in 1..Len(contents) |->
                    [path |-> toPosixPath(contents[i].path), content |-> contents[i].content]]
      first == priorityEntries(entries, 1)
  IN first \o unseenEntries(entries, 1, {first[i].path : i \in 1..Len(first)})

\* the excerpt loop cutting every file to the per-file cap alone
RECURSIVE excerptsFrom_PerFileOnly(_, _, _, _, _)
excerptsFrom_PerFileOnly(ordered, k, usedChars, maxTotalExcerptChars, maxExcerptCharsPerFile) ==
  IF k > Len(ordered) \/ usedChars >= maxTotalExcerptChars THEN <<>>
  ELSE LET excerpt == TextSlice(ordered[k].content, maxExcerptCharsPerFile)
       IN IF ~Truthy(excerpt)
          THEN excerptsFrom_PerFileOnly(ordered, k + 1, usedChars, maxTotalExcerptChars,
                                        maxExcerptCharsPerFile)
          ELSE <<[path |-> ordered[k].path, excerpt |-> excerpt]>>
               \o excerptsFrom_PerFileOnly(ordered, k + 1, usedChars + TextLen(excerpt),
                                           maxTotalExcerptChars, maxExcerptCharsPerFile)

\* lines 682-691: the excerpt loop from entry k on with usedChars characters used
RECURSIVE excerptsFrom(_, _, _, _, _)
excerptsFrom(ordered, k, usedChars, maxTotalExcerptChars, maxExcerptCharsPerFile) ==
  IF k > Len(ordered) \/ usedChars >= maxTotalExcerptChars THEN <<>>
  ELSE LET remainingChars == maxTotalExcerptChars - usedChars
           excerpt == TextSlice(ordered[k].content, Min(maxExcerptCharsPerFile, remainingChars))
       IN IF ~Truthy(excerpt)
          THEN excerptsFrom(ordered, k + 1, usedChars, maxTotalExcerptChars,
                            maxExcerptCharsPerFile)
          ELSE <<[path |-> ordered[k].path, excerpt |-> excerpt]>>
               \o excerptsFrom(ordered, k + 1, usedChars + TextLen(excerpt),
                               maxTotalExcerptChars, maxExcerptCharsPerFile)

\* lines 654-702: the files of the digest prompt
digestFiles(contents, totalEnv, perFileEnv) ==
  LET maxTotalExcerptChars == envNumberOr(totalEnv, DEFAULT_DIGEST_MAX_TOTAL_EXCERPT_CHARS)
      maxExcerptCharsPerFile == envNumberOr(perFileEnv, DEFAULT_DIGEST_MAX_EXCERPT_CHARS_PER_FILE)
      ordered == orderedEntriesOf(contents)
      files == excerptsFrom(ordered, 1, 0, maxTotalExcerptChars, maxExcerptCharsPerFile)
  IN IF Len(files) = 0 /\ Len(ordered) > 0
     THEN <<[path |-> ordered[1].path,
             excerpt |-> TextSlice(ordered[1].content, maxExcerptCharsPerFile)]>>
     ELSE files

\* openai.js lines 5-13: the client is created once, when the key is set;
\* the call returns a client exactly when the key is set
ensureClient(key, client) == [client |-> client \/ key, returned |-> key]

\* lines 977-1004: after the fetch loop; with a client, report 'ai_digest' and
\* send the first digest request
Summarize(W) ==
  /\ pc = "summarize"
  /\ openaiClient' = ensureClient(hasOpenAI, openaiClient).client
  /\ IF ensureClient(hasOpenAI, openaiClient).returned
     THEN /\ \E dt \in W.ticks :
               SetProgress(updateProgress(progressState,
                 Progress("ai_digest", 60, <<"Summarizing repository with AI", <<>>>>), dt))
          /\ pending' = [api |-> "digest", attempt |-> 1, cap |-> maxOutputTokensOf(capEnv)]
          /\ pc' = "digest_wait"
     ELSE /\ pc' = "target_loop"
          /\ UNCHANGED <<pending, progressVars>>
  /\ ti' = 1
  /\ proposals' = <<>>
  /\ repoDigest' = Null
  /\ modelLabel' = BuiltIn
  /\ UNCHANGED <<envVars, fetchVars, existingMarkdown, requests, routeVars, thrown>>

\* completion.choices?.[0]?.message?.content?.trim(), Null when missing or empty
completionText(content) ==
  IF content = Null THEN Null
  ELSE IF Truthy(TextTrim(content)) THEN TextTrim(content) ELSE Null

\* JSON.parse of the digest text: the value, or "throws"
parseDigest(text) ==
  IF text = Text(<<"null">>) THEN [throws |-> FALSE, value |-> Null]
  ELSE IF text.pad = 0 /\ Len(text.head) >= 2 /\ text.head[1] = "{"
          /\ text.head[Len(text.head)] = "}"
  THEN [throws |-> FALSE, value |-> [digest |-> text.head]]
  ELSE [throws |-> TRUE, value |-> Null]

\* lines 780-787: the digest returned for a completion
digestOf(content) ==
  LET text == completionText(content)
  IN IF text = Null THEN Null ELSE parseDigest(text).value

\* lines 769-788 and 1004-1011: a digest request answers
DigestResponse(W) ==
  /\ pc = "digest_wait"
  /\ \E resp \in W.digestResponses :
       /\ requests' = Answered(resp)
       /\ IF resp.kind = "error" /\ pending.attempt = 1 /\ isTooLarge(resp)
          THEN /\ pending' = [api |-> "digest", attempt |-> 2,
                              cap |-> retryOutputTokens(maxOutputTokensOf(capEnv))]
               /\ UNCHANGED <<pc, digestVars>>
          ELSE /\ repoDigest' = IF resp.kind = "error" THEN Null ELSE digestOf(resp.content)
               /\ modelLabel' = IF repoDigest' # Null THEN OpenAILabel ELSE BuiltIn
               /\ pending' = Null
               /\ pc' = "target_loop"
  /\ UNCHANGED <<configVars, fetchVars, targetVars, progressVars, routeVars, thrown>>

docsPercent(i, targetCount) == Min(85, 65 + ((40 * i + targetCount) \div (2 * targetCount)))

ScanResult ==
  [enabledTargets |-> enabledTargets, filesScanned |-> Len(toRead), proposals |-> proposals,
   modelLabel |-> modelLabel]

\* lines 1017-1053: the head of the target loop up to the file lookup, and
\* lines 1113-1129 plus route lines 215-219 when the loop is over
TargetLoop(W) ==
  /\ pc = "target_loop"
  /\ IF ti > Len(enabledTargets)
     THEN /\ scanResult' = ScanResult
          /\ IF Len(enabledTargets) = 0
             THEN /\ FailScan([from |-> "no documents selected"], scanRec)
                  /\ UNCHANGED <<updater, forwarded, emitted, di, proposalFiles>>
             ELSE /\ \E dt \in W.ticks :
                       SetProgress(updateProgress(progressState,
                         Progress("proposal", 88, <<"Preparing proposal diffs", <<>>>>), dt))
                  /\ di' = 1
                  /\ proposalFiles' = <<>>
                  /\ pc' = "diff_loop"
                  /\ UNCHANGED <<pending, thrown>>
          /\ UNCHANGED proposalRec
     ELSE /\ \E dt \in W.ticks :
               LET targetCount == IF Len(enabledTargets) = 0 THEN 1 ELSE Len(enabledTargets)
               IN SetProgress(updateProgress(progressState,
                    Progress("generate_docs", docsPercent(ti - 1, targetCount),
                             <<"Generating ", enabledTargets[ti].type>>), dt))
          /\ pending' = [api |-> "contents", path |-> outputPathOf(enabledTargets[ti])]
          /\ pc' = "lookup_wait"
          /\ UNCHANGED <<routeVars, thrown>>
  /\ UNCHANGED <<configVars, fetchVars, digestVars, targetVars, requests>>

\* fetchRepoFileIfExists: what the caller gets for the file state and the
\* outcome of the request ("ok": the host answered; "error": any other failure)
fetchRepoFileIfExists(file, outcome) ==
  IF outcome = "ok" /\ Truthy(file)
  THEN [exists |-> TRUE, content |-> file]
  ELSE [exists |-> FALSE, content |-> Null]

\* lines 1054-1061
existingMarkdownOf(existing) ==
  LET text == IF existing.exists THEN existing.content ELSE EmptyText
  IN IF TextLen(text) > MAX_EXISTING_CHARS THEN TextSlice(text, MAX_EXISTING_CHARS) ELSE text

Proposal(target, outputPath, markdown) ==
  [target |-> target, outputPath |-> outputPath, markdown |-> markdown]

\* lines 1044-1078: the lookup answers; without a digest the built-in
\* generator runs at once, with one the rewrite request is sent
LookupResponse(W) ==
  /\ pc = "lookup_wait"
  /\ \E outcome \in W.lookupOutcomes :
       LET target == enabledTargets[ti]
           outputPath == pending.path
           md == existingMarkdownOf(fetchRepoFileIfExists(repo[outputPath], outcome))
       IN /\ requests' = Answered([kind |-> outcome])
          /\ existingMarkdown' = md
          /\ IF repoDigest # Null /\ hasOpenAI
             THEN /\ pending' = [api |-> "doc", path |-> outputPath,
                                  readmeRules |-> isReadmeRewrite(target)]
                  /\ pc' = "doc_wait"
                  /\ UNCHANGED <<ti, proposals>>
             ELSE /\ proposals' = Append(proposals, Proposal(target, outputPath,
                        fallbackMarkdown(target, outputPath, md, packageJson, apiRoutes, filePaths)))
                  /\ ti' = ti + 1
                  /\ pending' = Null
                  /\ pc' = "target_loop"
  /\ UNCHANGED <<configVars, fetchVars, digestVars, progressVars, routeVars, thrown>>

\* the rewrite step without its try/catch: an error of the LLM leaves the scan
rewriteOutcome_Rethrow(resp) ==
  [raised |-> resp.kind = "error",
   markdown |-> IF resp.kind = "error" THEN Null ELSE completionText(resp.content)]

\* lines 1065-1077 with 876-883: the try/catch around the rewrite; the
\* markdown is Null when the request failed or the text is empty, and
\* nothing is raised to the target loop
rewriteOutcome(resp) ==
  [raised |-> FALSE,
   markdown |-> IF resp.kind = "error" THEN Null ELSE completionText(resp.content)]

\* lines 1063-1110: the rewrite answers
DocResponse(W) ==
  /\ pc = "doc_wait"
  /\ \E resp \in W.docResponses \cup {[kind |-> "text", content |-> existingMarkdown]} :
       LET target == enabledTargets[ti]
           outputPath == pending.path
           llm == rewriteOutcome(resp)
           markdown == IF llm.markdown = Null
                       THEN fallbackMarkdown(target, outputPath, existingMarkdown,
                                             packageJson, apiRoutes, filePaths)
                       ELSE llm.markdown
       IN /\ requests' = Answered(resp)
          /\ IF llm.raised
             THEN /\ FailScan([from |-> "rewrite"], scanRec)
                  /\ UNCHANGED <<ti, proposals, updater, forwarded, emitted>>
             ELSE /\ proposals' = Append(proposals, Proposal(target, outputPath, markdown))
                  /\ ti' = ti + 1
                  /\ pending' = Null
                  /\ pc' = "target_loop"
                  /\ UNCHANGED <<progressVars, thrown>>
  /\ UNCHANGED <<configVars, fetchVars, digestVars, existingMarkdown, routeVars>>

\* a diff builder that proposes every document as a new file
proposalFileOf_AlwaysCreate(item, existing) ==
  LET after == IF item.markdown = Null THEN EmptyText ELSE item.markdown
  IN <<[filePath |-> item.outputPath, operation |-> "create", originalContent |-> Null,
        proposedContent |-> after]>>

\* route lines 234-249: the proposal file of one scan item, <<>> when the
\* content does not differ
proposalFileOf(item, existing) ==
  LET before == IF existing.exists THEN existing.content ELSE EmptyText
      after == IF item.markdown = Null THEN EmptyText ELSE item.markdown
  IN IF before # after
     THEN <<[filePath |-> item.outputPath,
             operation |-> IF existing.exists THEN "update" ELSE "create",
             originalContent |-> IF existing.exists THEN before ELSE Null,
             proposedContent |-> after]>>
     ELSE <<>>

\* route lines 224-232 and 252-305: the head of the diff loop; when it is
\* over, report 'db', create the proposal and write the completion
DiffLoop(W) ==
  /\ pc = "diff_loop"
  /\ IF di > Len(scanResult.proposals)
     THEN /\ \E dt \in W.ticks :
               LET msg == IF Len(proposalFiles) > 0 THEN "Saving proposal" ELSE "No changes detected"
                   st == updateProgress(progressState, Progress("db", 95, <<msg, <<>>>>), dt)
                   finalMessage == IF Len(proposalFiles) > 0 THEN "Completed"
                                   ELSE "Completed - No documentation changes detected"
               IN \E dt2 \in W.ticks :
                    SetProgress(completionWrite(st, scanResult.filesScanned,
                                                <<finalMessage, <<>>>>, dt2))
          /\ \E autoApprove \in W.autoApprove :
               proposalRec' = IF Len(proposalFiles) > 0
                              THEN [status |-> IF autoApprove THEN "approved" ELSE "pending",
                                    approvedAt |-> autoApprove,
                                    approvedBy |-> Null,
                                    modelLabel |-> IF hasOpenAI THEN "OpenAI (app key)" ELSE BuiltIn,
                                    files |-> proposalFiles]
                              ELSE Null
          /\ pc' = "done"
          /\ UNCHANGED pending
     ELSE /\ pending' = [api |-> "contents", path |-> scanResult.proposals[di].outputPath]
          /\ pc' = "diff_wait"
          /\ UNCHANGED <<progressVars, proposalRec>>
  /\ UNCHANGED <<configVars, fetchVars, digestVars, targetVars, requests, scanResult, di,
                 proposalFiles, thrown>>

\* route lines 225-250: the lookup of the diff loop answers
DiffResponse(W) ==
  /\ pc = "diff_wait"
  /\ \E outcome \in W.lookupOutcomes :
       /\ requests' = Answered([kind |-> outcome])
       /\ proposalFiles' = proposalFiles \o
            proposalFileOf(scanResult.proposals[di], fetchRepoFileIfExists(repo[pending.path], outcome))
  /\ di' = di + 1
  /\ pending' = Null
  /\ pc' = "diff_loop"
  /\ UNCHANGED <<configVars, fetchVars, digestVars, targetVars, progressVars, scanResult,
                 proposalRec, thrown>>

Next(W) ==
  \/ StartScan(W)
  \/ TreeResponse(W)
  \/ FetchLoop(W)
  \/ BlobResponse(W)
  \/ Summarize(W)
  \/ DigestResponse(W)
  \/ TargetLoop(W)
  \/ LookupResponse(W)
  \/ DocResponse(W)
  \/ DiffLoop(W)
  \/ DiffResponse(W)

\* -------------------------------------------------------------- worlds
\* The inputs of a run: project settings, environment and the answers of the
\* hosting API and of the LLM API.

TReadme == [type |-> <<"R","E","A","D","M","E">>, paths |-> << <<"R","E","A","D","M","E",".","m","d">> >>, enabled |-> TRUE]
TApiFile == [type |-> <<"A","P","I">>, paths |-> << <<"d","o","c","s","/","a","p","i",".","m","d">> >>, enabled |-> TRUE]
TApiGlob == [type |-> <<"A","P","I">>, paths |-> << <<"d","o","c","s","/","*",".","m","d">> >>, enabled |-> TRUE]
TGuideOff == [type |-> <<"G","u","i","d","e">>, paths |-> << <<"g","u","i","d","e",".","m","d">> >>, enabled |-> FALSE]

FPackage == [path |-> <<"p","a","c","k","a","g","e",".","j","s","o","n">>, size |-> 40, sha |-> "s1"]
FReadme == [path |-> <<"R","E","A","D","M","E",".","m","d">>, size |-> NoSize, sha |-> "s2"]
FSource == [path |-> <<"s","r","c","/","a",".","j","s">>, size |-> 40, sha |-> "s3"]
FNoSha == [path |-> <<"b",".","m","d">>, size |-> 40, sha |-> ""]
FImage == [path |-> <<"a",".","p","n","g">>, size |-> 40, sha |-> "s5"]
FSourceB == [path |-> <<"s","r","c","/","b",".","j","s">>, size |-> 40, sha |-> "s6"]

A1 == Text(<<"a">>)
A2 == Text(<<"a", "b">>)
A3 == Text(<<"a", "b", "c">>)
Blank == Text(<<" ">>)
BigDoc == [head |-> <<"a">>, pad |-> MAX_EXISTING_CHARS]
BigBlob == [head |-> <<"a">>, pad |-> DEFAULT_MAX_TOTAL_CHARS]
Manifest == Text(<<"{", "dep:next", "script:dev", "}">>)
OldReadme == Text(<<"# Old">>)

\* the sequences of length at most n over the set S
RECURSIVE SeqsUpTo(_, _)
SeqsUpTo(S, n) ==
  IF n = 0 THEN {<<>>}
  ELSE LET shorter == SeqsUpTo(S, n - 1)
       IN shorter \cup {Append(s, x) : s \in shorter, x \in S}

NoRepeat(s) == \A i, j \in 1..Len(s) : i # j => s[i] # s[j]

Listing(files) == [kind |-> "ok", files |-> files]
ApiError == [kind |-> "error"]
Blob(text) == [kind |-> "ok", text |-> text]
LLMError(status, sizeMessage) == [kind |-> "error", status |-> status, sizeMessage |-> sizeMessage]
LLMText(content) == [kind |-> "text", content |-> content]

DigestJSON == LLMText(Text(<<"{", "}">>))

BaseWorld ==
  [docsPaths |-> {<<>>, <<TApiFile>>, <<TGuideOff>>},
   limits |-> {Null},
   openai |-> {[key |-> FALSE, cap |-> 0], [key |-> TRUE, cap |-> 0]},
   docStates |-> {Null, A1},
   treeResponses |-> {ApiError, Listing(<<FPackage, FSource>>)},
   blobResponses |-> {ApiError, Blob(A1)},
   digestResponses |-> {LLMError(429, TRUE), LLMError(500, FALSE), DigestJSON},
   docResponses |-> {LLMError(500, FALSE), LLMText(A2)},
   lookupOutcomes |-> {"ok", "error"},
   autoApprove |-> {FALSE},
   ticks |-> {0, 300, 600}]

\* the fetch loop under every budget
FetchWorld ==
  [BaseWorld EXCEPT
     !.docsPaths = {<<>>},
     !.limits = {Null} \cup [maxFilesToRead : 0..MaxFilesBudget, maxTotalChars : 0..MaxBudget],
     !.docStates = {A1},
     !.treeResponses = {Listing(s) : s \in {t \in SeqsUpTo({FPackage, FSource, FNoSha, FImage},
                                                        MaxTreeFiles) : NoRepeat(t)}},
     !.blobResponses = {ApiError, Blob(EmptyText), Blob(A1), Blob(A2), Blob(A3), Blob(BigBlob)},
     !.digestResponses = {LLMError(500, FALSE), DigestJSON},
     !.docResponses = {LLMError(500, FALSE)},
     !.lookupOutcomes = {"ok"},
     !.ticks = {600}]

\* the digest step under every answer and output cap
DigestWorld ==
  [BaseWorld EXCEPT
     !.docsPaths = {<<>>},
     !.openai = {[key |-> FALSE, cap |-> 0]} \cup {[key |-> TRUE, cap |-> c] : c \in {0, 300, 400, 600, 1000}},
     !.docStates = {A1},
     !.treeResponses = {ApiError, Listing(<<FReadme>>)},
     !.blobResponses = {Blob(A1)},
     !.digestResponses =
        {LLMError(s, m) : s \in {429, 500}, m \in BOOLEAN}
        \cup {DigestJSON, LLMText(Null), LLMText(EmptyText), LLMText(Blank),
              LLMText(Text(<<"{">>)), LLMText(Text(<<"null">>))},
     !.docResponses = {LLMError(500, FALSE), LLMText(A2)},
     !.lookupOutcomes = {"ok"},
     !.ticks = {600}]

\* the candidate selector under every listing and file count
SelectWorld ==
  [BaseWorld EXCEPT
     !.docsPaths = {<<>>},
     !.limits = {Null} \cup [maxFilesToRead : 0..MaxFilesBudget, maxTotalChars : {MaxBudget}],
     !.docStates = {A1},
     !.openai = {[key |-> TRUE, cap |-> 0]},
     !.treeResponses = {Listing(s) : s \in {t \in SeqsUpTo({FPackage, FSource, FSourceB, FImage},
                                                        MaxTreeFiles + 1) : NoRepeat(t)}},
     !.blobResponses = {Blob(A1)},
     !.digestResponses = {DigestJSON},
     !.docResponses = {LLMText(A2)},
     !.lookupOutcomes = {"ok"},
     !.ticks = {600}]

\* every package.json declaring up to two of four members
Manifests ==
  {Text(<<"{">> \o m \o <<"}">>) :
     m \in {t \in SeqsUpTo({"dep:next", "dep:prisma", "dep:@prisma/client", "script:dev"}, 2) :
              NoRepeat(t)}}

\* the README of a repository holding package.json and README.md
ReadmeWorld ==
  [BaseWorld EXCEPT
     !.docsPaths = {<<>>, <<TReadme>>},
     !.docStates = {Null, OldReadme},
     !.treeResponses = {Listing(<<FPackage, FReadme>>)},
     !.blobResponses = {Blob(m) : m \in Manifests \cup {OldReadme}},
     !.digestResponses = {LLMError(500, FALSE), DigestJSON},
     !.docResponses = {LLMError(500, FALSE), LLMText(A2)},
     !.lookupOutcomes = {"ok"},
     !.ticks = {600}]

TargetLists == {t \in SeqsUpTo({TReadme, TApiFile, TApiGlob, TGuideOff}, MaxTargets) : NoRepeat(t)}

\* the target loop and the diff builder under every target, document and lookup answer
DocsWorld ==
  [BaseWorld EXCEPT
     !.docsPaths = TargetLists,
     !.docStates = {Null, EmptyText, Blank, A1, BigDoc},
     !.treeResponses = {Listing(<<FPackage>>)},
     !.blobResponses = {Blob(Manifest)},
     !.digestResponses = {LLMError(500, FALSE), DigestJSON},
     !.docResponses = {LLMError(500, FALSE)},
     !.ticks = {600}]

\* the rewrite step under every answer of the LLM
RewriteWorld ==
  [BaseWorld EXCEPT
     !.docsPaths = SeqsUpTo({TReadme, TApiFile, TGuideOff}, MaxTargets),
     !.docStates = {Null, EmptyText, Blank, A1},
     !.treeResponses = {Listing(<<FPackage>>)},
     !.blobResponses = {Blob(Manifest)},
     !.digestResponses = {LLMError(500, FALSE), DigestJSON},
     !.docResponses = {LLMError(500, FALSE), LLMText(Null), LLMText(Blank), LLMText(A2)},
     !.lookupOutcomes = {"ok"},
     !.ticks = {600}]

docPathsOf(dp) == {outputPathOf(enabledTargetsOf(dp)[i]) : i \in 1..Len(enabledTargetsOf(dp))}

\* no second scan
Alone == current = 1 /\ other = Null

InitScan(W) ==
  /\ pc = "start"
  /\ docsPaths \in W.docsPaths
  /\ limits \in W.limits
  /\ \E o \in W.openai : hasOpenAI = o.key /\ capEnv = o.cap
  /\ repo \in [docPathsOf(docsPaths) -> W.docStates]
  /\ allFiles = <<>> /\ toRead = <<>> /\ fi = 0 /\ contentsByPath = <<>> /\ remaining = 0
  /\ repoDigest = Null /\ modelLabel = BuiltIn
  /\ ti = 0 /\ existingMarkdown = EmptyText /\ proposals = <<>>
  /\ pending = Null /\ requests = <<>>
  /\ scanRec = Null
  /\ updater = [sinceWrite |-> THROTTLE_MS, last |-> Null]
  /\ forwarded = <<>>
  /\ emitted = <<>>
  /\ scanResult = Null /\ di = 0 /\ proposalFiles = <<>> /\ proposalRec = Null
  /\ thrown = Null
  /\ args = Null /\ result = Null
  /\ openaiClient = FALSE
  /\ scans = <<>> /\ handlers = <<>>

Init(W) == InitScan(W) /\ Alone

Spec == Init(BaseWorld) /\ [][Next(BaseWorld)]_vars
SpecFetch == Init(FetchWorld) /\ [][Next(FetchWorld)]_vars
SpecDigest == Init(DigestWorld) /\ [][Next(DigestWorld)]_vars
SpecDocs == Init(DocsWorld) /\ [][Next(DocsWorld)]_vars
SpecRewrite == Init(RewriteWorld) /\ [][Next(RewriteWorld)]_vars
SpecSelect == Init(SelectWorld) /\ [][Next(SelectWorld)]_vars
SpecReadme == Init(ReadmeWorld) /\ [][Next(ReadmeWorld)]_vars

\* ------------------------------------------------- two scans at once
\* Everything a scan and its route handler keep: the locals of
\* scanRepoAndGenerateDocProposals and of POST, the closure of the scan's
\* updater, and the scan's own rows.  The environment and the client of
\* openai.js are the process's.
scanLocals ==
  [pc |-> pc,
   docsPaths |-> docsPaths,
   limits |-> limits,
   repo |-> repo,
   allFiles |-> allFiles,
   toRead |-> toRead,
   fi |-> fi,
   contentsByPath |-> contentsByPath,
   remaining |-> remaining,
   repoDigest |-> repoDigest,
   modelLabel |-> modelLabel,
   ti |-> ti,
   existingMarkdown |-> existingMarkdown,
   proposals |-> proposals,
   pending |-> pending,
   requests |-> requests,
   scanRec |-> scanRec,
   updater |-> updater,
   forwarded |-> forwarded,
   emitted |-> emitted,
   scanResult |-> scanResult,
   di |-> di,
   proposalFiles |-> proposalFiles,
   proposalRec |-> proposalRec,
   thrown |-> thrown]

\* the event loop with the running scan's budget kept across the switch
Switch_SharedBudget ==
  /\ other # Null
  /\ current' = 3 - current
  /\ other' = scanLocals
  /\ UNCHANGED tableVars
  /\ pc' = other.pc
  /\ docsPaths' = other.docsPaths
  /\ limits' = other.limits
  /\ repo' = other.repo
  /\ allFiles' = other.allFiles
  /\ toRead' = other.toRead
  /\ fi' = other.fi
  /\ contentsByPath' = other.contentsByPath
  /\ UNCHANGED remaining
  /\ repoDigest' = other.repoDigest
  /\ modelLabel' = other.modelLabel
  /\ ti' = other.ti
  /\ existingMarkdown' = other.existingMarkdown
  /\ proposals' = other.proposals
  /\ pending' = other.pending
  /\ requests' = other.requests
  /\ scanRec' = other.scanRec
  /\ updater' = other.updater
  /\ forwarded' = other.forwarded
  /\ emitted' = other.emitted
  /\ scanResult' = other.scanResult
  /\ di' = other.di
  /\ proposalFiles' = other.proposalFiles
  /\ proposalRec' = other.proposalRec
  /\ thrown' = other.thrown
  /\ UNCHANGED <<hasOpenAI, capEnv, openaiClient, callVars>>

\* at an await the event loop goes on with the other scan
Switch ==
  /\ other # Null
  /\ current' = 3 - current
  /\ other' = scanLocals
  /\ UNCHANGED tableVars
  /\ pc' = other.pc
  /\ docsPaths' = other.docsPaths
  /\ limits' = other.limits
  /\ repo' = other.repo
  /\ allFiles' = other.allFiles
  /\ toRead' = other.toRead
  /\ fi' = other.fi
  /\ contentsByPath' = other.contentsByPath
  /\ remaining' = other.remaining
  /\ repoDigest' = other.repoDigest
  /\ modelLabel' = other.modelLabel
  /\ ti' = other.ti
  /\ existingMarkdown' = other.existingMarkdown
  /\ proposals' = other.proposals
  /\ pending' = other.pending
  /\ requests' = other.requests
  /\ scanRec' = other.scanRec
  /\ updater' = other.updater
  /\ forwarded' = other.forwarded
  /\ emitted' = other.emitted
  /\ scanResult' = other.scanResult
  /\ di' = other.di
  /\ proposalFiles' = other.proposalFiles
  /\ proposalRec' = other.proposalRec
  /\ thrown' = other.thrown
  /\ UNCHANGED <<hasOpenAI, capEnv, openaiClient, callVars>>

\* two scans with their own budgets
PairWorld ==
  [BaseWorld EXCEPT
     !.docsPaths = {<<>>},
     !.limits = [maxFilesToRead : {MaxFilesBudget}, maxTotalChars : {MaxBudget + 1, MaxBudget + 2}],
     !.docStates = {A1},
     !.treeResponses = {Listing(<<FPackage, FSource>>)},
     !.blobResponses = {Blob(A1), Blob(A2)},
     !.digestResponses = {LLMError(500, FALSE), DigestJSON},
     !.docResponses = {LLMText(A2)},
     !.lookupOutcomes = {"ok"},
     !.ticks = {600}]

InitPair(W) ==
  /\ InitScan(W)
  /\ current = 1
  /\ \E d \in W.docsPaths, l \in W.limits :
       \E r \in [docPathsOf(d) -> W.docStates] :
         other = [scanLocals EXCEPT !.docsPaths = d, !.limits = l, !.repo = r]

SpecPair == InitPair(PairWorld) /\ [][Next(PairWorld) \/ Switch]_vars

\* ------------------------------------------------- pure functions
\* no scan is running
NoScan ==
  /\ docsPaths = <<>> /\ limits = Null /\ hasOpenAI = FALSE /\ capEnv = Null
  /\ repo = <<>>
  /\ allFiles = <<>> /\ toRead = <<>> /\ fi = 0 /\ contentsByPath = <<>> /\ remaining = 0
  /\ repoDigest = Null /\ modelLabel = BuiltIn
  /\ ti = 0 /\ existingMarkdown = EmptyText /\ proposals = <<>>
  /\ pending = Null /\ requests = <<>>
  /\ scanRec = Null
  /\ updater = [sinceWrite |-> THROTTLE_MS, last |-> Null]
  /\ forwarded = <<>>
  /\ emitted = <<>>
  /\ scanResult = Null /\ di = 0 /\ proposalFiles = <<>> /\ proposalRec = Null
  /\ thrown = Null
  /\ openaiClient = FALSE /\ Alone
  /\ scans = <<>> /\ handlers = <<>>

Returns(value) ==
  /\ pc = "call"
  /\ result' = [value |-> value]
  /\ pc' = "returned"
  /\ UNCHANGED <<scanVars, args, openaiClient, pairVars, tableVars>>

\* the patterns and paths of a call of anyGlobMatches
DocsDeepMd == <<"d","o","c","s","/","*","*","/","*",".","m","d">>
DocsFlatMd == <<"d","o","c","s","/","*",".","m","d">>
AnyMd == <<"*",".","m","d">>
GlobPatterns == SeqsUpTo({"a", "/", "*", "?", "\n"}, MaxPatternLen) \cup {DocsDeepMd, DocsFlatMd, AnyMd}
GlobPaths ==
  SeqsUpTo({"a", "/", "\n"}, MaxPathLen)
  \cup {<<"d","o","c","s","/","a","/","b",".","m","d">>, <<"r","e","a","d","m","e",".","m","d">>,
        <<"d","o","c","s","/","b",".","m","d">>, <<"r","e","a","d","m","e","x","m","d">>}

InitGlob ==
  /\ pc = "call"
  /\ NoScan
  /\ \E patterns \in {<<>>} \cup {<<g>> : g \in GlobPatterns}
                      \cup {<<DocsFlatMd, g>> : g \in {DocsDeepMd, AnyMd}},
        path \in GlobPaths :
       args = [patterns |-> patterns, path |-> path]
  /\ result = Null

AnyGlobMatchesCall == Returns(anyGlobMatches(args.patterns, args.path))

SpecGlob == InitGlob /\ [][AnyGlobMatchesCall]_vars

\* the patterns of a call of inferOutputPathFromGlob
InferPatterns ==
  SeqsUpTo({"a", "/", "*", "?", " "}, MaxPatternLen)
  \cup {<<".","m","d">>, <<"a",".","m","d">>, <<"a",".","M","d">>, <<"a",".","m","d","x">>,
        <<"a",".","m","d","/">>, <<"a","/","b",".","m","d">>, <<"a","?",".","m","d">>,
        <<"a","\\","b">>, <<"a","\\","*">>, <<"a","/","/","*">>}

InitInfer ==
  /\ pc = "call"
  /\ NoScan
  /\ \E globPattern \in InferPatterns, fallbackDir \in {<<"d">>, <<"d","/","e">>},
        fallbackFile \in {<<"R",".","m","d">>} :
       args = [globPattern |-> globPattern, fallbackDir |-> fallbackDir,
               fallbackFile |-> fallbackFile]
  /\ result = Null

InferOutputPathCall ==
  Returns(inferOutputPathFromGlob(args.globPattern, args.fallbackDir, args.fallbackFile))

SpecInfer == InitInfer /\ [][InferOutputPathCall]_vars

\* the fetched contents of a call of generateRepoDigestLLM: a Map, so no key twice
FetchedContents ==
  {c \in SeqsUpTo([path : {FPackage.path, FReadme.path, <<"a","/","b">>, <<"a","\\","b">>},
                   content : {EmptyText, A1, A3}], MaxTreeFiles + 1) :
     \A i, j \in 1..Len(c) : c[i].path = c[j].path => i = j}
  \cup {<<[path |-> FSource.path, content |-> BigBlob], [path |-> FReadme.path, content |-> BigBlob]>>}

InitExcerpts ==
  /\ pc = "call"
  /\ NoScan
  /\ \E contents \in FetchedContents, totalEnv \in 0..(MaxBudget + 1),
        perFileEnv \in 0..(MaxBudget + 1) :
       args = [contents |-> contents, totalEnv |-> totalEnv, perFileEnv |-> perFileEnv]
  /\ result = Null

DigestFilesCall == Returns(digestFiles(args.contents, args.totalEnv, args.perFileEnv))

SpecExcerpts == InitExcerpts /\ [][DigestFilesCall]_vars

\* ------------------------------------------------- the progress reporter
\* createScanProgressUpdater on its own: a caller hands it any progress
\* objects at any times.
\* The percents are not a number, -0.6, 0.5, 100.4 and 50.
Report ==
  /\ pc = "reporting"
  /\ Len(emitted) < MaxReports
  /\ \E percent \in {NaN, Tenths(-6), Tenths(5), Tenths(1004), Num(50)},
        phase \in {"read_files", "generate_docs"},
        message \in {<<"Reading ", <<"a">>>>, <<"Reading ", <<"b">>>>}, dt \in {0, 300, 600} :
       SetProgress(updateProgress(progressState,
                     [phase |-> phase, percent |-> percent, message |-> message], dt))
  /\ UNCHANGED <<pc, configVars, fetchVars, digestVars, targetVars, routeVars, pending,
                 requests, thrown>>

\* the route has created the scan row and the updater, nothing else
InitProgress ==
  /\ pc = "reporting"
  /\ docsPaths = <<>> /\ limits = Null /\ hasOpenAI = FALSE /\ capEnv = Null
  /\ repo = <<>>
  /\ allFiles = <<>> /\ toRead = <<>> /\ fi = 0 /\ contentsByPath = <<>> /\ remaining = 0
  /\ repoDigest = Null /\ modelLabel = BuiltIn
  /\ ti = 0 /\ existingMarkdown = EmptyText /\ proposals = <<>>
  /\ pending = Null /\ requests = <<>>
  /\ scanRec = NewScanRec
  /\ updater = [sinceWrite |-> THROTTLE_MS, last |-> Null]
  /\ forwarded = <<>>
  /\ emitted = <<>>
  /\ scanResult = Null /\ di = 0 /\ proposalFiles = <<>> /\ proposalRec = Null
  /\ thrown = Null
  /\ args = Null /\ result = Null
  /\ openaiClient = FALSE /\ Alone
  /\ scans = <<>> /\ handlers = <<>>

SpecProgress == InitProgress /\ [][Report]_vars

\* ------------------------------------------------------------ properties
requestsTo(api) == SelectSeq(requests, LAMBDA r : r.req.api = api)

RECURSIVE sumAnswered(_)
sumAnswered(rs) ==
  IF rs = <<>> THEN 0
  ELSE (IF Head(rs).outcome.kind = "ok" THEN TextLen(Head(rs).outcome.text) ELSE 0)
       + sumAnswered(Tail(rs))

isReadmeType(type) == includes(toLowerCase(type), <<"r","e","a","d","m","e">>)

\* C1: with no LLM configured, every proposal entry of a target whose type is
\* not README and whose output file exists with content carries exactly the
\* content of that file.
C1_ConservativeFallback ==
  ~hasOpenAI =>
    \A i \in 1..Len(proposals) :
      (~isReadmeType(proposals[i].target.type) /\ Truthy(repo[proposals[i].outputPath]))
        => proposals[i].markdown = repo[proposals[i].outputPath]

\* a scan without LLM over two targets of type API whose documents exist and
\* whose lookups succeeded: the one resolved from a glob got the README
\* template, the one longer than the cap lost its tail
C1_Witness ==
  /\ ~hasOpenAI
  /\ pc = "done"
  /\ docsPaths = <<TApiGlob, TApiFile>>
  /\ repo[proposals[1].outputPath] = A1
  /\ repo[proposals[2].outputPath] = BigDoc
  /\ requestsTo("contents")[1].outcome.kind = "ok"
  /\ requestsTo("contents")[2].outcome.kind = "ok"
  /\ proposals[1].markdown = generateReadmeTemplate(packageJson, apiRoutes, filePaths)
  /\ proposals[2].markdown = TextSlice(BigDoc, MAX_EXISTING_CHARS)
  /\ proposals[2].markdown # BigDoc

\* the lookups of the diff loop are the last requests of a completed run
diffLookup(i) == requests[Len(requests) - Len(scanResult.proposals) + i]

fileBrief(f) == [filePath |-> f.filePath, operation |-> f.operation]

\* the proposal files the claim expects for the items i..n: none for an item
\* equal to the file in the repository, else one, 'update' when the repository
\* holds the file with content and 'create' when it does not
RECURSIVE expectedFiles(_)
expectedFiles(i) ==
  IF i > Len(scanResult.proposals) THEN <<>>
  ELSE LET item == scanResult.proposals[i]
           file == repo[item.outputPath]
           found == Truthy(file)
           before == IF found THEN file ELSE EmptyText
       IN (IF item.markdown = before THEN <<>>
           ELSE <<[filePath |-> item.outputPath,
                   operation |-> IF found THEN "update" ELSE "create"]>>)
          \o expectedFiles(i + 1)

\* C2: a target whose generated content equals the content of the existing
\* file yields no proposal file; any other target yields exactly one, 'update'
\* when the file exists and 'create' when it does not; no proposal record is
\* created when no target differs. (An existing file is read here as a file
\* with content: an empty one has no prior content.)
C2_DiffBuilderByFile ==
  pc = "done" =>
    /\ [j \in 1..Len(proposalFiles) |-> fileBrief(proposalFiles[j])] = expectedFiles(1)
    /\ (proposalRec = Null) = (expectedFiles(1) = <<>>)
    /\ proposalRec # Null => proposalRec.files = proposalFiles

\* a completed scan whose only target was generated equal to the file in the
\* repository and still became a 'create' proposal, the lookup having failed
C2_Witness ==
  /\ pc = "done"
  /\ Len(scanResult.proposals) = 1
  /\ scanResult.proposals[1].markdown = repo[scanResult.proposals[1].outputPath]
  /\ diffLookup(1).outcome.kind = "error"
  /\ Len(proposalFiles) = 1
  /\ proposalFiles[1].operation = "create"
  /\ proposalRec # Null

\* C3: the remaining budget is never negative and the stored contents never
\* add up to more than the character budget.
C3_BudgetInvariant ==
  /\ remaining >= 0
  /\ sumLens(contentsByPath) <= maxTotalCharsOf(limits)

\* the fetch loop is over, two contents are stored, the host sent more
\* characters than the budget and the stored ones fill it exactly
C3_Witness ==
  /\ pc = "summarize"
  /\ maxTotalCharsOf(limits) > 0
  /\ Len(contentsByPath) >= 2
  /\ sumLens(contentsByPath) = maxTotalCharsOf(limits)
  /\ sumAnswered(requestsTo("blob")) > maxTotalCharsOf(limits)

\* C4: filesScanned is the number of files whose content was fetched and is at
\* most the max-files budget.
C4_FilesScannedIsReadSet ==
  scanResult # Null =>
    /\ scanResult.filesScanned = Len(contentsByPath)
    /\ scanResult.filesScanned <= maxFilesToReadOf(limits)

\* a result counting two files of which one was fetched, both with a sha
C4_Witness ==
  /\ scanResult # Null
  /\ \A k \in 1..Len(toRead) : toRead[k].sha # ""
  /\ scanResult.filesScanned = 2
  /\ Len(contentsByPath) = 1

\* C5: every proposal entry and every proposal file has non-empty proposed content.
C5_AfterNonEmpty ==
  /\ \A i \in 1..Len(proposals) : Truthy(proposals[i].markdown)
  /\ \A j \in 1..Len(proposalFiles) : Truthy(proposalFiles[j].proposedContent)
  /\ proposalRec # Null => \A j \in 1..Len(proposalRec.files) :
                              Truthy(proposalRec.files[j].proposedContent)

\* a completed scan with a proposal in which the rewrite of a non-README
\* target with an empty existing document answered whitespace only
C5_Witness ==
  /\ pc = "done"
  /\ proposalRec # Null
  /\ \E i \in 1..Len(requests) :
       /\ requests[i].req.api = "doc"
       /\ requests[i].outcome = LLMText(Blank)
       /\ repo[requests[i].req.path] = EmptyText
       /\ ~isReadmeTarget(<<>>, requests[i].req.path)

digestRequests == requestsTo("digest")
digestPending == pending # Null /\ pending.api = "digest"
digestIssued == Len(digestRequests) + (IF digestPending THEN 1 ELSE 0)
afterDigest ==
  hasOpenAI /\ pc \in {"target_loop", "lookup_wait", "doc_wait", "diff_loop", "diff_wait", "done"}
sizeLimited(outcome) == outcome.kind = "error" /\ outcome.status = 429 /\ outcome.sizeMessage
usableDigest(outcome) ==
  /\ outcome.kind = "text"
  /\ outcome.content # Null
  /\ outcome.content.pad = 0
  /\ Len(outcome.content.head) >= 2
  /\ outcome.content.head[1] = "{"
  /\ outcome.content.head[Len(outcome.content.head)] = "}"
hostSources == {"tree", "blob", "no documents selected"}

\* C6: the digest step sends at most two requests, the second only after a
\* 429 size-limit failure of the first and then always; every other error, a
\* failing retry, an empty or unparsable answer gives a null digest, a
\* successful retry a non-null one, and nothing is raised out of the scan.
C6_DigestRetry ==
  /\ digestIssued <= 2
  /\ digestIssued = 2 => sizeLimited(digestRequests[1].outcome)
  /\ thrown # Null => thrown.from \in hostSources
  /\ afterDigest =>
       LET n == Len(digestRequests)
           last == digestRequests[n].outcome
       IN /\ n >= 1
          /\ sizeLimited(digestRequests[1].outcome) => n = 2
          /\ usableDigest(last) => repoDigest # Null
          /\ ~usableDigest(last) => repoDigest = Null

\* the digest step sent two requests and the second one gave the digest
C6_Witness ==
  /\ afterDigest
  /\ Len(digestRequests) = 2
  /\ digestRequests[2].outcome = DigestJSON
  /\ repoDigest # Null

\* C7: the retry request of the digest step asks for strictly fewer output
\* tokens than the first request.
C7_RetryCapSmaller ==
  /\ (digestPending /\ pending.attempt = 2) => pending.cap < digestRequests[1].req.cap
  /\ Len(digestRequests) = 2 => digestRequests[2].req.cap < digestRequests[1].req.cap

\* a retry asking for more output tokens than the first request
C7_Witness ==
  /\ Len(digestRequests) = 2
  /\ digestRequests[1].req.cap = 300
  /\ digestRequests[2].req.cap = RETRY_FLOOR_TOKENS

\* the existing markdown the target loop saw for target i, from its lookup
seenExisting(i) ==
  existingMarkdownOf(fetchRepoFileIfExists(repo[proposals[i].outputPath],
                                           requestsTo("contents")[i].outcome.kind))

builtInFor(i) ==
  fallbackMarkdown(proposals[i].target, proposals[i].outputPath, seenExisting(i),
                   packageJson, apiRoutes, filePaths)

rewriteUsable(outcome) ==
  outcome.kind = "text" /\ outcome.content # Null /\ Truthy(TextTrim(outcome.content))

\* C8: no LLM outcome aborts the scan; the result holds one entry per enabled
\* target in the configured order; an entry whose rewrite failed or was empty
\* holds the built-in generator's output for that target, every other entry
\* the rewrite.
C8_LLMNeverAborts ==
  /\ thrown # Null => thrown.from \in hostSources
  /\ scanResult # Null =>
       /\ Len(scanResult.proposals) = Len(enabledTargets)
       /\ \A i \in 1..Len(enabledTargets) : scanResult.proposals[i].target = enabledTargets[i]
  /\ \A i \in 1..Len(proposals) :
       IF repoDigest # Null /\ rewriteUsable(requestsTo("doc")[i].outcome)
       THEN proposals[i].markdown = TextTrim(requestsTo("doc")[i].outcome.content)
       ELSE proposals[i].markdown = builtInFor(i)

\* a completed scan of two targets: the rewrite of the first failed, the
\* second entry is the rewrite of the second
C8_Witness ==
  /\ pc = "done"
  /\ Len(proposals) = 2
  /\ repoDigest # Null
  /\ requestsTo("doc")[1].outcome.kind = "error"
  /\ requestsTo("doc")[2].outcome = LLMText(A2)
  /\ proposals[2].markdown = A2
  /\ proposals[1].markdown # A2

hostFailures ==
  {i \in 1..Len(requests) : requests[i].req.api \in {"tree", "blob"}
                            /\ requests[i].outcome.kind = "error"}

\* C9: a failed tree or blob request is the last request of the scan and was
\* sent once; its error leaves the scan, no result is returned, the scan row
\* is 'failed' with phase 'failed' and no proposal is created.
C9_HostingFailureAborts ==
  \A i \in hostFailures :
    /\ i = Len(requests)
    /\ pending = Null
    /\ \A j \in 1..Len(requests) : j # i => requests[j].req # requests[i].req
    /\ pc = "failed"
    /\ thrown = [from |-> requests[i].req.api]
    /\ scanResult = Null
    /\ proposalRec = Null
    /\ scanRec.status = "failed"
    /\ scanRec.progressPhase = "failed"

\* the second blob request failed after the first one had been stored
C9_Witness ==
  /\ pc = "failed"
  /\ Len(requestsTo("blob")) = 2
  /\ requests[Len(requests)].req.api = "blob"
  /\ requests[Len(requests)].outcome.kind = "error"
  /\ Len(contentsByPath) = 1

\* C10: once the handler has finished, the scan row holds the terminal
\* progress state: 'done' with 100 percent after a success, 'failed' after a
\* failure, whatever the throttle dropped before.
C10_TerminalProgressPersisted ==
  /\ pc = "done" => /\ scanRec.status = "completed"
                    /\ scanRec.progressPhase = "done"
                    /\ scanRec.progressPercent = 100
  /\ pc = "failed" => /\ scanRec.status = "failed"
                      /\ scanRec.progressPhase = "failed"

\* a completed scan whose updater wrote one update only and was still inside
\* the throttle window when the completion was written
C10_Witness ==
  /\ pc = "done"
  /\ Len(forwarded) = 1
  /\ updater.sinceWrite < THROTTLE_MS

\* ---- C11
\* Math.round(value) of a finite number held in tenths, limited to 0..100,
\* and 0 for a value that is not finite
roundedInRange(value) ==
  IF ~value.finite THEN 0
  ELSE LET nearest == CHOOSE n \in -3..102 :
                        10 * n - 5 <= value.tenths /\ value.tenths < 10 * n + 5
       IN IF nearest < 0 THEN 0 ELSE IF nearest > 100 THEN 100 ELSE nearest

\* C11: the progress reporter writes an update only when its (percent, phase,
\* message) differs from the last update written and at least 600 ms passed
\* since that write (the first write needs no earlier one); the percent it
\* writes is the reported percent rounded and limited to 0..100, 0 for a
\* value that is not a finite number; so consecutive written updates differ
\* and are at least 600 ms apart.
C11_ThrottledDistinctClamped ==
  [][forwarded' # forwarded =>
       LET n == Len(forwarded')
           new == forwarded'[n]
           sent == emitted'[Len(emitted')]
       IN /\ n = Len(forwarded) + 1
          /\ new.update.percent \in 0..100
          /\ new.update.percent = roundedInRange(sent.percent)
          /\ new.update.phase = sent.phase
          /\ new.update.message = sent.message
          /\ n > 1 => /\ new.update # forwarded[n - 1].update
                      /\ new.since >= THROTTLE_MS]_vars

\* two updates written out of three reported, among them one reported as not
\* a number and one reported above 100
C11_Witness ==
  /\ pc = "reporting"
  /\ Len(forwarded) = 2
  /\ Len(emitted) = 3
  /\ \E k \in 1..3 : ~emitted[k].percent.finite
  /\ \E k \in 1..3 : emitted[k].percent.tenths > 1000
  /\ \E k \in 1..2 : forwarded[k].update.percent = 100

\* ---- C12
\* every document of the returned result came from the built-in generator
producedWithoutLLM ==
  /\ scanResult # Null
  /\ \/ repoDigest = Null
     \/ \A i \in 1..Len(scanResult.proposals) : ~rewriteUsable(requestsTo("doc")[i].outcome)

\* C12: when every document of a scan came from the built-in generator (no
\* key, no usable digest, or every rewrite failed or was empty), the
\* modelLabel of the scan result and the modelLabel stored on the proposal
\* are both "Built-in generator".
C12_BuiltInLabel ==
  producedWithoutLLM =>
    /\ scanResult.modelLabel = BuiltIn
    /\ proposalRec # Null => proposalRec.modelLabel = BuiltIn

\* a completed scan with a key whose digest call failed: the result says
\* "Built-in generator", the stored proposal names OpenAI
C12_Witness ==
  /\ pc = "done"
  /\ hasOpenAI
  /\ repoDigest = Null
  /\ scanResult.modelLabel = BuiltIn
  /\ proposalRec # Null
  /\ proposalRec.modelLabel = "OpenAI (app key)"

\* a completed scan with a digest whose only rewrite failed: the document is
\* the built-in generator's and the result names the OpenAI models
C12_WitnessRewrite ==
  /\ pc = "done"
  /\ repoDigest # Null
  /\ Len(proposals) = 1
  /\ requestsTo("doc")[1].outcome.kind = "error"
  /\ proposals[1].markdown = builtInFor(1)
  /\ scanResult.modelLabel = OpenAILabel

\* ---- C13
\* the listed files that pass the filters, by their place in the listing
keptPlaces == {i \in 1..Len(allFiles) : passesFilters(allFiles[i])}

\* the file at place i comes before the file at place j
readBefore(i, j) ==
  \/ scoreOf(allFiles[i].path) > scoreOf(allFiles[j].path)
  \/ scoreOf(allFiles[i].path) = scoreOf(allFiles[j].path) /\ i < j

rankOf(i) == 1 + Cardinality({j \in keptPlaces : readBefore(j, i)})

\* C13: the read set is a function of the listing and the max-count alone:
\* the kept files by descending score, files of equal score in their listing
\* order, cut to the first max-count entries.
C13_SelectorOrder ==
  LET count == Min(maxFilesToReadOf(limits), Cardinality(keptPlaces))
  IN /\ Len(toRead) = count
     /\ \A i \in keptPlaces :
          rankOf(i) <= count =>
            /\ toRead[rankOf(i)].path = allFiles[i].path
            /\ toRead[rankOf(i)].sha = allFiles[i].sha
            /\ toRead[rankOf(i)].size = allFiles[i].size
            /\ toRead[rankOf(i)].score = scoreOf(allFiles[i].path)

\* two source files of equal score listed before package.json, two files to
\* read: package.json first, then the source file listed first; the other
\* source file is cut off
C13_Witness ==
  /\ allFiles = <<FSourceB, FSource, FPackage>>
  /\ Len(toRead) = 2
  /\ toRead[1].path = FPackage.path
  /\ toRead[2].path = FSourceB.path
  /\ pc = "done"

\* ---- C14
\* the stated grammar: pat from position i on matches p from position j to
\* its end
RECURSIVE grammarFrom(_, _, _, _)
grammarFrom(pat, i, p, j) ==
  IF i > Len(pat) THEN j > Len(p)
  ELSE IF <<pat[i], charAt(pat, i + 1), charAt(pat, i + 2)>> = <<"*", "*", "/">>
    \* zero or more whole segments, each with its separator
    THEN \E k \in j..(Len(p) + 1) : (k = j \/ p[k - 1] = "/") /\ grammarFrom(pat, i + 3, p, k)
  ELSE IF <<pat[i], charAt(pat, i + 1)>> = <<"*", "*">>
    \* any characters
    THEN \E k \in j..(Len(p) + 1) : grammarFrom(pat, i + 2, p, k)
  ELSE IF pat[i] = "*"
    \* a run of non-separator characters
    THEN \E k \in j..(Len(p) + 1) :
           (\A n \in j..(k - 1) : p[n] # "/") /\ grammarFrom(pat, i + 1, p, k)
  ELSE IF pat[i] = "?"
    THEN j <= Len(p) /\ p[j] # "/" /\ grammarFrom(pat, i + 1, p, j + 1)
  ELSE j <= Len(p) /\ p[j] = pat[i] /\ grammarFrom(pat, i + 1, p, j + 1)

\* C14: anyGlobMatches answers as the stated grammar does: true exactly when
\* some pattern of the list matches the path, with * a run inside one
\* segment, ? one non-separator character, **/ zero or more whole segments,
\* bare ** any characters and every other character itself; the three
\* examples of the specification are among the calls.  A pattern is read
\* without the white space around it and with / for every backslash.
C14_GlobGrammar ==
  pc = "returned" /\ "patterns" \in DOMAIN args =>
    result.value = (\E n \in 1..Len(args.patterns) :
                      grammarFrom(trim(toPosixPath(args.patterns[n])), 1,
                                  toPosixPath(args.path), 1))

\* the call with the pattern ** and a path holding a line break returned false
C14_Witness ==
  /\ pc = "returned"
  /\ "patterns" \in DOMAIN args
  /\ args.patterns = <<<<"*", "*">>>>
  /\ args.path = <<"a", "\n", "a">>
  /\ result.value = FALSE

\* the grammar is kept on every path without a line break
globGrammarOnOneLine ==
  pc = "returned" /\ "patterns" \in DOMAIN args
  /\ (\A n \in 1..Len(args.path) : args.path[n] \notin LineTerminators) =>
    result.value = (\E n \in 1..Len(args.patterns) :
                      grammarFrom(trim(toPosixPath(args.patterns[n])), 1,
                                  toPosixPath(args.path), 1))

\* ---- C15
hasGlobToken(pattern) == \E n \in 1..Len(pattern) : pattern[n] \in {"*", "?"}

\* the text before the first * or ?, the whole pattern when it has neither
beforeFirstToken(pattern) ==
  IF hasGlobToken(pattern)
  THEN SubSeq(pattern, 1, (CHOOSE n \in 1..Len(pattern) :
                             /\ pattern[n] \in {"*", "?"}
                             /\ \A m \in 1..(n - 1) : pattern[m] \notin {"*", "?"}) - 1)
  ELSE pattern

withoutTrailingSlash(text) ==
  IF text # <<>> /\ text[Len(text)] = "/" THEN SubSeq(text, 1, Len(text) - 1) ELSE text

endsInMd(pattern) ==
  /\ Len(pattern) >= 3
  /\ pattern[Len(pattern) - 2] = "."
  /\ pattern[Len(pattern) - 1] \in {"m", "M"}
  /\ pattern[Len(pattern)] \in {"d", "D"}

statedOutputPath(pattern, fallbackDir, fallbackFile) ==
  LET dir == withoutTrailingSlash(beforeFirstToken(pattern))
  IN IF pattern = <<>> THEN fallbackDir \o <<"/">> \o fallbackFile
     ELSE IF ~hasGlobToken(pattern) /\ endsInMd(pattern) THEN pattern
     ELSE IF dir = <<>> THEN fallbackDir \o <<"/">> \o fallbackFile
     ELSE dir \o <<"/">> \o fallbackFile

\* C15: inferOutputPathFromGlob returns the pattern itself when it has no *
\* or ? and ends in .md in any case; otherwise the text before the first * or
\* ? (the whole pattern when it has none) without one trailing /, then / and
\* the fallback file name; and fallbackDir/fallbackFile when the pattern or
\* that prefix is empty.  A pattern is read without the white space around
\* it and with / for every backslash.
C15_InferredOutputPath ==
  pc = "returned" /\ "globPattern" \in DOMAIN args =>
    result.value = statedOutputPath(trim(toPosixPath(args.globPattern)), args.fallbackDir,
                                    args.fallbackFile)

\* the call with the pattern "/" returned "/" and the fallback file name
C15_Witness ==
  /\ pc = "returned"
  /\ "globPattern" \in DOMAIN args
  /\ args.globPattern = <<"/">>
  /\ result.value = <<"/">> \o args.fallbackFile

\* the statement holds for every pattern that is more than the separator
inferredOutputPathButSlash ==
  pc = "returned" /\ "globPattern" \in DOMAIN args /\ trim(toPosixPath(args.globPattern)) # <<"/">> =>
    result.value = statedOutputPath(trim(toPosixPath(args.globPattern)), args.fallbackDir,
                                    args.fallbackFile)

\* ---- C16
RECURSIVE excerptChars(_)
excerptChars(files) ==
  IF files = <<>> THEN 0 ELSE TextLen(Head(files).excerpt) + excerptChars(Tail(files))

\* where the content of a path was fetched: its first place in the Map
fetchPlace(path) ==
  CHOOSE i \in 1..Len(args.contents) :
    /\ toPosixPath(args.contents[i].path) = path
    /\ \A j \in 1..(i - 1) : toPosixPath(args.contents[j].path) # path

\* the place of a path in the prompt order: the priority paths in their
\* order, then every other path in fetch order
promptPlace(path) ==
  IF \E k \in 1..Len(priorityPaths) : priorityPaths[k] = path
  THEN CHOOSE k \in 1..Len(priorityPaths) : priorityPaths[k] = path
  ELSE Len(priorityPaths) + fetchPlace(path)

\* C16: with positive excerpt budgets (the defaults when none is set) every
\* excerpt of the digest prompt is the start of a fetched content and at most
\* the per-file cap long, the excerpts together are at most the total budget
\* long, the fetched priority files come first in their fixed order and the
\* other files follow in fetch order, no path comes twice, and at least one
\* file is in the prompt when any file was fetched.
C16_DigestExcerpts ==
  pc = "returned" /\ "contents" \in DOMAIN args =>
    LET files == result.value
        total == IF args.totalEnv = 0 THEN 90000 ELSE args.totalEnv
        perFile == IF args.perFileEnv = 0 THEN 2500 ELSE args.perFileEnv
    IN /\ \A n \in 1..Len(files) :
            /\ \E i \in 1..Len(args.contents) : toPosixPath(args.contents[i].path) = files[n].path
            /\ TextLen(files[n].excerpt) <= perFile
            /\ files[n].excerpt = TextSlice(args.contents[fetchPlace(files[n].path)].content,
                                            TextLen(files[n].excerpt))
       /\ excerptChars(files) <= total
       /\ \A n, m \in 1..Len(files) : n < m => promptPlace(files[n].path) < promptPlace(files[m].path)
       /\ Len(args.contents) > 0 => Len(files) >= 1

\* three files fetched, package.json last, a total budget of three
\* characters: package.json comes first, README.md is cut to what is left,
\* the third file is left out
C16_Witness ==
  /\ pc = "returned"
  /\ "contents" \in DOMAIN args
  /\ Len(args.contents) = 3
  /\ args.contents[1].path = <<"a", "/", "b">>
  /\ args.contents[1].content = A3
  /\ args.contents[2] = [path |-> FReadme.path, content |-> A3]
  /\ args.contents[3] = [path |-> FPackage.path, content |-> A1]
  /\ args.totalEnv = 3
  /\ Len(result.value) = 2
  /\ result.value[1] = [path |-> FPackage.path, excerpt |-> A1]
  /\ result.value[2] = [path |-> FReadme.path, excerpt |-> A2]

\* ---- C18
phaseRank(phase) ==
  CASE phase = "init" -> 0
    [] phase = "tree" -> 1
    [] phase = "read_files" -> 2
    [] phase = "ai_digest" -> 3
    [] phase = "generate_docs" -> 4
    [] phase = "proposal" -> 5
    [] phase = "db" -> 6

emittedIn(phase) == {n \in 1..Len(emitted) : emitted[n].phase = phase}

issuedTo(api) ==
  Len(requestsTo(api)) + (IF pending # Null /\ pending.api = api THEN 1 ELSE 0)

\* C18: after the caller's 'init' the progress events are emitted in the
\* order tree, read_files, ai_digest, generate_docs, proposal, db: one tree
\* event, one read_files event before each blob fetch, at most one
\* ai_digest, one generate_docs per target, then the caller's one proposal
\* and one db event; read_files percents are within 10..55, generate_docs
\* percents within 65..85, and the percent never decreases along the
\* sequence.
C18_PhaseOrder ==
  /\ \A n \in 1..Len(emitted) :
       /\ emitted[n].percent.finite
       /\ emitted[n].phase = "read_files" =>
            emitted[n].percent.tenths >= 100 /\ emitted[n].percent.tenths <= 550
       /\ emitted[n].phase = "generate_docs" =>
            emitted[n].percent.tenths >= 650 /\ emitted[n].percent.tenths <= 850
       /\ n > 1 => /\ phaseRank(emitted[n - 1].phase) <= phaseRank(emitted[n].phase)
                   /\ emitted[n - 1].percent.tenths <= emitted[n].percent.tenths
  /\ \A phase \in {"init", "tree", "ai_digest", "proposal", "db"} :
       Cardinality(emittedIn(phase)) <= 1
  /\ Cardinality(emittedIn("read_files")) = issuedTo("blob")
  /\ scanResult = Null => Cardinality(emittedIn("generate_docs")) = issuedTo("contents")
  /\ scanResult # Null => Cardinality(emittedIn("generate_docs")) = Len(enabledTargets)

\* a completed scan that read two files: every phase was reported, the two
\* read_files events at 10 and 33 percent
C18_Witness ==
  /\ pc = "done"
  /\ Len(emitted) = 8
  /\ emitted[3].phase = "read_files" /\ emitted[3].percent = Num(10)
  /\ emitted[4].phase = "read_files" /\ emitted[4].percent = Num(33)
  /\ emitted[5].phase = "ai_digest"
  /\ emitted[6].phase = "generate_docs"
  /\ emitted[7].phase = "proposal"
  /\ emitted[8].phase = "db"

\* ---- C19
\* what the host answered for the blob of a listed file
blobAnswers(file) ==
  {requests[n].outcome.text : n \in {m \in 1..Len(requests) :
     /\ requests[m].req.api = "blob"
     /\ requests[m].req.sha = file.sha
     /\ requests[m].outcome.kind = "ok"}}

\* the fetched package.json is a JSON object declaring the members
declares(members) ==
  \E text \in blobAnswers(FPackage) :
    /\ text.pad = 0 /\ Len(text.head) >= 2
    /\ text.head[1] = "{" /\ text.head[Len(text.head)] = "}"
    /\ \A m \in members : \E n \in 2..(Len(text.head) - 1) : text.head[n] = m

parsableManifest == declares({})

holds(markdown, line) == \E n \in 1..Len(markdown.head) : markdown.head[n] = line

\* C19: without a key, the README generated from a fetched and parsable
\* package.json that declares next and prisma has the "Database Setup"
\* section and DATABASE_URL among its environment variables; from one that
\* declares neither prisma nor @prisma/client it has neither.
C19_ReadmeDatabaseSection ==
  ~hasOpenAI /\ parsableManifest =>
    \A i \in 1..Len(proposals) :
      toLowerCase(proposals[i].target.type) = <<"r","e","a","d","m","e">> =>
        /\ declares({"dep:next", "dep:prisma"}) =>
             /\ holds(proposals[i].markdown, "### Database Setup (Prisma)")
             /\ holds(proposals[i].markdown, "DATABASE_URL")
        /\ ~declares({"dep:prisma"}) /\ ~declares({"dep:@prisma/client"}) =>
             /\ ~holds(proposals[i].markdown, "### Database Setup (Prisma)")
             /\ ~holds(proposals[i].markdown, "DATABASE_URL")

\* a scan without a key whose package.json declares next and prisma: the
\* README has the database section and DATABASE_URL
C19_Witness ==
  /\ ~hasOpenAI
  /\ pc = "done"
  /\ declares({"dep:next", "dep:prisma"})
  /\ Len(proposals) = 1
  /\ proposals[1].target = TReadme
  /\ holds(proposals[1].markdown, "### Database Setup (Prisma)")
  /\ holds(proposals[1].markdown, "DATABASE_URL")

\* ---- C20
\* the repository of the example: package.json with a dev script and next,
\* README.md holding "# Old", the one README target
exampleRepository ==
  /\ ~hasOpenAI
  /\ docsPaths = <<TReadme>>
  /\ allFiles = <<FPackage, FReadme>>
  /\ blobAnswers(FPackage) = {Text(<<"{", "script:dev", "dep:next", "}">>)}
  /\ blobAnswers(FReadme) = {OldReadme}
  /\ repo[FReadme.path] = OldReadme

\* C20: without a key, the scan of the example repository and the diff
\* builder give exactly one proposal file: an update of README.md whose
\* before is "# Old" and whose after holds "## Getting Started" and
\* "npm run dev".
C20_ExampleProposal ==
  exampleRepository /\ pc = "done" =>
    /\ Len(proposalFiles) = 1
    /\ proposalFiles[1].filePath = FReadme.path
    /\ proposalFiles[1].operation = "update"
    /\ proposalFiles[1].originalContent = OldReadme
    /\ holds(proposalFiles[1].proposedContent, "## Getting Started")
    /\ holds(proposalFiles[1].proposedContent, "npm run dev")
    /\ proposalRec # Null /\ proposalRec.files = proposalFiles

\* the scan of the example repository is over
C20_Witness ==
  /\ exampleRepository
  /\ pc = "done"
  /\ scanResult.filesScanned = 2
  /\ Len(proposalFiles) = 1

\* ---- C17
scanState(s) == IF current = s THEN scanLocals ELSE other

sameInputs(a, b) == a.docsPaths = b.docsPaths /\ a.limits = b.limits /\ a.repo = b.repo

\* two scans of equal inputs that got the same answers to the same requests
\* and are at the same step
sameRun(a, b) ==
  /\ sameInputs(a, b)
  /\ a.pc = b.pc /\ a.pending = b.pending /\ a.requests = b.requests
  /\ a.fi = b.fi /\ a.ti = b.ti /\ a.di = b.di

FOverCap == [path |-> <<"b","i","g",".","j","s">>, size |-> DEFAULT_MAX_FILE_BYTES + 1, sha |-> "s7"]
FLock == [path |-> <<"y","a","r","n",".","l","o","c","k">>, size |-> 40, sha |-> "s8"]
FGit == [path |-> <<".","g","i","t","/","x">>, size |-> 40, sha |-> "s9"]
OverCapBlob == [head |-> <<"a">>, pad |-> DEFAULT_MAX_FILE_BYTES]

FilterWorld ==
  [BaseWorld EXCEPT
     !.docsPaths = {<<>>},
     !.openai = {[key |-> TRUE, cap |-> 0]},
     !.docStates = {A1},
     !.treeResponses = {Listing(s) : s \in {t \in SeqsUpTo({FReadme, FOverCap, FLock, FGit, FImage, FSource},
                                                        MaxTreeFiles) : NoRepeat(t)}},
     !.blobResponses = {Blob(A1), Blob(OverCapBlob)},
     !.digestResponses = {DigestJSON},
     !.docResponses = {LLMText(A2)},
     !.lookupOutcomes = {"ok"},
     !.ticks = {600}]

SpecFilter == Init(FilterWorld) /\ [][Next(FilterWorld)]_vars

\* the blobs the hosting API returned for file f
blobsOf(f) ==
  {requests[k].outcome.text : k \in {j \in 1..Len(requests) :
      /\ requests[j].req # Null
      /\ requests[j].req.api = "blob"
      /\ requests[j].req.sha = f.sha
      /\ requests[j].outcome.kind = "ok"}}

\* the bytes of f: what the tree entry reports, else what its blob holds (a
\* text of n characters takes at least n bytes)
withinByteCap(f) ==
  IF f.size # NoSize THEN f.size <= DEFAULT_MAX_FILE_BYTES
  ELSE \A text \in blobsOf(f) : TextLen(text) <= DEFAULT_MAX_FILE_BYTES

\* C23: every file of the read set has a path that is neither empty nor
\* ignored, an extension outside the binary set, and at most 200,000 bytes,
\* the files whose tree entry reports no size included.
C23_ReadSetFiltered ==
  \A i \in 1..Len(toRead) :
    /\ toPosixPath(toRead[i].path) # <<>>
    /\ ~isIgnoredPath(toRead[i].path)
    /\ extname(toRead[i].path) \notin BINARY_EXTENSIONS
    /\ withinByteCap(toRead[i])

\* a file without a reported size was read and its blob is over the cap
C23_Witness ==
  \E i \in 1..Len(toRead) :
    /\ toRead[i].size = NoSize
    /\ mapHas(contentsByPath, toPosixPath(toRead[i].path))
    /\ TextLen(mapGet(contentsByPath, toPosixPath(toRead[i].path))) > DEFAULT_MAX_FILE_BYTES

\* the same with the byte cap asked of reported sizes only
readSetFilteredByReportedSize ==
  \A i \in 1..Len(toRead) :
    /\ ~isIgnoredPath(toRead[i].path)
    /\ extname(toRead[i].path) \notin BINARY_EXTENSIONS
    /\ (toRead[i].size # NoSize => toRead[i].size <= DEFAULT_MAX_FILE_BYTES)

\* ------------------------------------------------------------ claim C24
\* the read-set entries the loop does not skip (line 957)
withSha == SelectSeq(toRead, LAMBDA f : f.sha # "")

\* the sha of every blob request made so far, the one in flight last
askedShas ==
  [k \in 1..Len(requestsTo("blob")) |-> requestsTo("blob")[k].req.sha]
  \o (IF pending # Null /\ pending.api = "blob" THEN <<pending.sha>> ELSE <<>>)

\* the texts the hosting API returned, in request order
blobTexts ==
  LET ok == SelectSeq(requestsTo("blob"), LAMBDA r : r.outcome.kind = "ok")
  IN [k \in 1..Len(ok) |-> ok[k].outcome.text]

RECURSIVE charsBefore(_)
charsBefore(k) == IF k <= 1 THEN 0 ELSE charsBefore(k - 1) + TextLen(blobTexts[k - 1])

storedAt(k) == mapGet(contentsByPath, toPosixPath(withSha[k].path))

\* C24: blobs are requested one at a time in read-set order; every fetched
\* file is stored in full, except that the last stored file may be cut to
\* exactly the budget that remained; at most one stored file is cut; and once
\* the remaining budget is 0 no blob request is made for the rest of the scan.
C24_FetchGreedy ==
  /\ [](/\ Len(askedShas) <= Len(withSha)
        /\ \A k \in 1..Len(askedShas) : askedShas[k] = withSha[k].sha
        /\ Len(askedShas) - Len(requestsTo("blob")) \in {0, 1}
        /\ Len(contentsByPath) = Len(blobTexts)
        /\ \A k \in 1..Len(blobTexts) :
             IF charsBefore(k) + TextLen(blobTexts[k]) <= maxTotalCharsOf(limits)
             THEN storedAt(k) = blobTexts[k]
             ELSE /\ k = Len(blobTexts)
                  /\ storedAt(k) = TextSlice(blobTexts[k], maxTotalCharsOf(limits) - charsBefore(k))
                  /\ TextLen(storedAt(k)) = maxTotalCharsOf(limits) - charsBefore(k)
        /\ Cardinality({k \in 1..Len(blobTexts) : storedAt(k) # blobTexts[k]}) <= 1)
  /\ [][pc \notin {"start", "tree_wait"} =>
          /\ remaining' <= remaining
          /\ (remaining = 0 => Len(askedShas)' = Len(askedShas))]_vars

\* the loop is over: the first file was cut to the whole budget and the
\* second, which has a sha, was never requested
C24_Witness ==
  /\ pc = "summarize"
  /\ maxTotalCharsOf(limits) > 0
  /\ Len(withSha) = 2
  /\ Len(askedShas) = 1
  /\ Len(blobTexts) = 1
  /\ TextLen(blobTexts[1]) > TextLen(storedAt(1))
  /\ remaining = 0

\* ------------------------------------------------------------ claim C25
\* extractApiRoutesFromFiles on its own: a read set of distinct paths and the
\* contents fetched for some of them.
RouteB == <<"s","r","c","/","a","p","p","/","a","p","i","/","b","/","r","o","u","t","e",".","j","s">>
RouteA == <<"s","r","c","/","a","p","p","/","a","p","i","/","a","/","r","o","u","t","e",".","j","s">>
RouteParam == <<"s","r","c","/","a","p","p","/","a","p","i","/","[","a","]","/","r","o","u","t","e",".","j","s">>
RouteColon == <<"s","r","c","/","a","p","p","/","a","p","i","/",":","a","/","r","o","u","t","e",".","j","s">>
RouteContents ==
  {Null, Text(<<"export async function GET">>),
   Text(<<"export function POST", "export async function DELETE">>), Text(<<"export const GET">>)}

InitRoutes ==
  /\ pc = "call"
  /\ NoScan
  /\ \E files \in {t \in SeqsUpTo({RouteB, RouteA, RouteParam, RouteColon, FSource.path},
                                  MaxTreeFiles + 1) : NoRepeat(t)} :
       \E fetched \in [{files[i] : i \in 1..Len(files)} -> RouteContents] :
         args = [files |-> [i \in 1..Len(files) |-> [path |-> files[i]]],
                 contents |-> SelectSeq([i \in 1..Len(files) |->
                                           [path |-> files[i], content |-> fetched[files[i]]]],
                                        LAMBDA e : e.content # Null)]
  /\ result = Null

ExtractApiRoutesCall == Returns(extractApiRoutesFromFiles(args.files, args.contents))

SpecRoutes == InitRoutes /\ [][ExtractApiRoutesCall]_vars

\* the methods whose export declaration stands in the content fetched for p
declaredIn(p) ==
  SelectSeq(MethodNames,
    LAMBDA m : \E k \in 1..5 : MethodNames[k] = m /\ declaresMethod(mapGet(args.contents, p), k))

routeFiles == {i \in 1..Len(args.files) : isApiRouteFile(toPosixPath(args.files[i].path))}

\* C25: the route list is sorted by apiPath, holds no apiPath twice, and has
\* for each route file one entry listing exactly the methods whose export
\* declaration appears in the file's fetched content.
C25_ApiRouteList ==
  result # Null =>
    LET routes == result.value
    IN /\ \A i, j \in 1..Len(routes) : i < j => localeNotAfter(routes[i].apiPath, routes[j].apiPath)
       /\ \A i, j \in 1..Len(routes) : i # j => routes[i].apiPath # routes[j].apiPath
       /\ \A f \in routeFiles :
            \E i \in 1..Len(routes) :
              /\ routes[i].apiPath = apiPathOf(toPosixPath(args.files[f].path))
              /\ routes[i].methods = declaredIn(toPosixPath(args.files[f].path))
       /\ Len(routes) <= Cardinality(routeFiles)

\* a route file whose fetched content declares no method is listed with GET
C25_Witness ==
  /\ result # Null
  /\ Len(result.value) = 1
  /\ \E f \in routeFiles :
       /\ mapHas(args.contents, args.files[f].path)
       /\ declaredIn(args.files[f].path) = <<>>
  /\ result.value[1].methods = <<"GET">>

\* two route files under different directories are listed with one apiPath
routeListedTwice ==
  /\ result # Null
  /\ Len(result.value) = 2
  /\ result.value[1].apiPath = result.value[2].apiPath

\* what the list does hold: sorted, one entry per route file in a stable
\* order, the declared methods when there are any and GET otherwise
apiRouteListSortedWithDefault ==
  result # Null =>
    LET routes == result.value
    IN /\ \A i, j \in 1..Len(routes) : i < j => localeNotAfter(routes[i].apiPath, routes[j].apiPath)
       /\ Len(routes) = Cardinality(routeFiles)
       /\ \A f \in routeFiles :
            \E i \in 1..Len(routes) :
              /\ routes[i].apiPath = apiPathOf(toPosixPath(args.files[f].path))
              /\ routes[i].methods =
                   (IF declaredIn(toPosixPath(args.files[f].path)) = <<>> THEN <<"GET">>
                    ELSE declaredIn(toPosixPath(args.files[f].path)))

\* ------------------------------------------------------------ claim C26
\* the target a rewrite request was sent for: with a digest every target
\* sends one, in order
rewriteTarget(j) == enabledTargets[j]

\* C26: the rewrite step and the built-in fallback classify a target the same
\* way: every rewrite request carries the README rules exactly when the
\* fallback of the same target would take the README template.
C26_SameClassification ==
  \A j \in 1..Len(requestsTo("doc")) :
    requestsTo("doc")[j].req.readmeRules
      = isReadmeTarget(rewriteTarget(j).type, requestsTo("doc")[j].req.path)

\* a rewrite asked with the minimal-edit rules failed, and the fallback
\* replaced the existing document by the README template
C26_Witness ==
  /\ Len(requestsTo("doc")) >= 1
  /\ Len(proposals) >= 1
  /\ ~requestsTo("doc")[1].req.readmeRules
  /\ requestsTo("doc")[1].outcome.kind = "error"
  /\ Truthy(repo[proposals[1].outputPath])
  /\ requestsTo("contents")[1].outcome.kind = "ok"
  /\ proposals[1].markdown = generateReadmeTemplate(packageJson, apiRoutes, filePaths)
  /\ proposals[1].markdown # repo[proposals[1].outputPath]

\* ------------------------------------------------------------ claim C27
beforeOf(f) == IF f.originalContent = Null THEN EmptyText ELSE f.originalContent

\* C27: whenever the diff builder stores a proposal file, its 'before' is
\* the existing content the generator used for that item, and it is a
\* 'create' exactly when the generator had no existing content.
C27_BeforeIsGeneratorExisting ==
  [][Len(proposalFiles') > Len(proposalFiles) =>
       LET f == proposalFiles'[Len(proposalFiles')]
       IN /\ beforeOf(f) = seenExisting(di)
          /\ (f.operation = "create") <=> (TextLen(seenExisting(di)) = 0)]_vars

\* both lookups of a document over the cap succeeded: the generator used its
\* first 80,000 characters and returned them, the diff is against the whole
C27_Witness ==
  /\ Len(proposalFiles) >= 1
  /\ scanResult # Null
  /\ requestsTo("contents")[1].outcome.kind = "ok"
  /\ diffLookup(1).outcome.kind = "ok"
  /\ proposalFiles[1].filePath = scanResult.proposals[1].outputPath
  /\ proposalFiles[1].operation = "update"
  /\ proposalFiles[1].originalContent = BigDoc
  /\ seenExisting(1) = TextSlice(BigDoc, MAX_EXISTING_CHARS)
  /\ proposalFiles[1].proposedContent = seenExisting(1)

\* the same for documents within the cap whose two lookups had one outcome
beforeIsGeneratorExistingWhenStable ==
  [][(/\ Len(proposalFiles') > Len(proposalFiles)
      /\ requestsTo("contents")[di].outcome.kind = requests'[Len(requests')].outcome.kind
      /\ (repo[pending.path] # Null => TextLen(repo[pending.path]) <= MAX_EXISTING_CHARS)) =>
       LET f == proposalFiles'[Len(proposalFiles')]
       IN /\ beforeOf(f) = seenExisting(di)
          /\ (f.operation = "create") <=> (TextLen(seenExisting(di)) = 0)]_vars

\* ------------------------------------------------------------ claim C28
\* targets whose patterns are a glob, a directory and a file
TDocsDir == [type |-> <<"G","u","i","d","e">>, paths |-> << <<"d","o","c","s","/">> >>, enabled |-> TRUE]

PathsWorld ==
  [BaseWorld EXCEPT
     !.docsPaths = {t \in SeqsUpTo({TApiGlob, TDocsDir, TApiFile, TReadme}, MaxTargets) : NoRepeat(t)},
     !.docStates = {Null, A1},
     !.treeResponses = {Listing(<<FPackage>>)},
     !.blobResponses = {Blob(Manifest)},
     !.digestResponses = {LLMError(500, FALSE), DigestJSON},
     !.lookupOutcomes = {"ok"},
     !.ticks = {600}]

SpecPaths == Init(PathsWorld) /\ [][Next(PathsWorld)]_vars

\* C28: no two proposal entries of a scan result have the same outputPath,
\* and a stored proposal holds no two files for one repository path.
C28_DistinctOutputPaths ==
  /\ scanResult # Null =>
       \A i, j \in 1..Len(scanResult.proposals) :
         i # j => scanResult.proposals[i].outputPath # scanResult.proposals[j].outputPath
  /\ proposalRec # Null =>
       \A i, j \in 1..Len(proposalRec.files) :
         i # j => proposalRec.files[i].filePath # proposalRec.files[j].filePath

\* two different enabled targets, one stored proposal with two files for
\* docs/README.md
C28_Witness ==
  /\ pc = "done"
  /\ proposalRec # Null
  /\ Len(enabledTargets) = 2
  /\ enabledTargets[1] # enabledTargets[2]
  /\ Len(proposalRec.files) = 2
  /\ proposalRec.files[1].filePath = proposalRec.files[2].filePath

\* ------------------------------------------------------------ claim C29
\* existing documents that begin or end with a newline
DocEndsNewline == Text(<<"a", "\n">>)
DocBeginsNewline == Text(<<"\n", "a">>)

\* the rewrite step answering with the existing document or failing
EchoWorld ==
  [BaseWorld EXCEPT
     !.docsPaths = {t \in SeqsUpTo({TReadme, TApiFile, TGuideOff}, MaxTargets) : NoRepeat(t)},
     !.docStates = {Null, A1, DocEndsNewline, DocBeginsNewline},
     !.treeResponses = {Listing(<<FPackage>>)},
     !.blobResponses = {Blob(Manifest)},
     !.digestResponses = {LLMError(500, FALSE), DigestJSON},
     !.docResponses = {LLMError(500, FALSE)},
     !.lookupOutcomes = {"ok"},
     !.ticks = {600}]

SpecEcho == Init(EchoWorld) /\ [][Next(EchoWorld)]_vars

\* the rewrite of target i returned the existing document as it is
echoed(i) ==
  /\ repoDigest # Null
  /\ Truthy(seenExisting(i))
  /\ requestsTo("doc")[i].outcome = LLMText(seenExisting(i))

\* C29: when the rewrite returns the existing document verbatim, the
\* generated content is the existing content and the target yields no
\* proposal file.
C29_EchoYieldsNoProposal ==
  /\ \A i \in 1..Len(proposals) : echoed(i) => proposals[i].markdown = seenExisting(i)
  /\ pc = "done" =>
       \A i \in 1..Len(proposals) :
         echoed(i) => \A k \in 1..Len(proposalFiles) :
                        proposalFiles[k].filePath # proposals[i].outputPath

\* the document ends with a newline, the rewrite returned it verbatim, and
\* the stored proposal updates the file to the text without the newline
C29_Witness ==
  /\ pc = "done"
  /\ Len(proposals) = 1
  /\ echoed(1)
  /\ seenExisting(1) = DocEndsNewline
  /\ Len(proposalFiles) = 1
  /\ proposalFiles[1].operation = "update"
  /\ proposalFiles[1].originalContent = DocEndsNewline
  /\ proposalFiles[1].proposedContent = A1

\* the same for the documents that neither begin nor end with whitespace
echoOfTrimmedYieldsNoProposal ==
  /\ \A i \in 1..Len(proposals) :
       (echoed(i) /\ TextTrim(seenExisting(i)) = seenExisting(i)) =>
         proposals[i].markdown = seenExisting(i)
  /\ pc = "done" =>
       \A i \in 1..Len(proposals) :
         (echoed(i) /\ TextTrim(seenExisting(i)) = seenExisting(i)) =>
           \A k \in 1..Len(proposalFiles) : proposalFiles[k].filePath # proposals[i].outputPath

\* ------------------------------------------------------------ claim C21
\* The callers that turn a scan result into stored proposal files: the scan
\* request ("status"), the AI-generate endpoint ("generate"), and the two
\* versions of the cron runner ("cron", "cronCopy").
Callers == {"status", "generate", "cron", "cronCopy"}

\* generate/route.js lines 137-148 and part_006 lines 562-574: the proposal
\* file of one scan item, whatever the contents
unfilteredFileOf(item, existing) ==
  LET before == IF existing.exists THEN existing.content ELSE EmptyText
      after == IF item.markdown = Null THEN EmptyText ELSE item.markdown
  IN <<[filePath |-> item.outputPath,
        operation |-> IF existing.exists THEN "update" ELSE "create",
        originalContent |-> IF existing.exists THEN before ELSE Null,
        proposedContent |-> after]>>

RECURSIVE filesBy(_, _, _)
filesBy(caller, items, existing) ==
  IF items = <<>> THEN <<>>
  ELSE (IF caller \in {"status", "cron"}
        THEN proposalFileOf(Head(items), Head(existing))
        ELSE unfilteredFileOf(Head(items), Head(existing)))
       \o filesBy(caller, Tail(items), Tail(existing))

\* what the caller stores: the files and whether a proposal record is created
storedBy(caller, items, existing) ==
  LET files == filesBy(caller, items, existing)
  IN [files |-> files,
      created |-> IF caller \in {"status", "cron"} THEN Len(files) > 0 ELSE TRUE]

InitStore ==
  /\ pc = "call"
  /\ NoScan
  /\ \E caller \in Callers :
       \E items \in SeqsUpTo([outputPath : {TReadme.paths[1], TApiFile.paths[1]},
                              markdown : {Null, A1, A2}], MaxTargets) \ {<<>>} :
         \E existing \in [1..Len(items) -> {fetchRepoFileIfExists(file, outcome) :
                                              file \in {Null, A1, A2}, outcome \in {"ok", "error"}}] :
           args = [caller |-> caller, items |-> items, existing |-> existing]
  /\ result = Null

StoreProposalCall == Returns(storedBy(args.caller, args.items, args.existing))

SpecStore == InitStore /\ [][StoreProposalCall]_vars

\* C21: no caller stores a proposal file whose original content equals its
\* proposed content, and none creates a proposal record that has no changed
\* file.
C21_NoDiffNoProposal ==
  result # Null =>
    /\ \A k \in 1..Len(result.value.files) :
         beforeOf(result.value.files[k]) # result.value.files[k].proposedContent
    /\ result.value.created =>
         \E k \in 1..Len(result.value.files) :
           beforeOf(result.value.files[k]) # result.value.files[k].proposedContent

\* the AI-generate endpoint stored an update whose two contents are the same
C21_Witness ==
  /\ result # Null
  /\ args.caller = "generate"
  /\ Len(args.items) = 1
  /\ args.existing[1].exists
  /\ args.items[1].markdown = args.existing[1].content
  /\ result.value.created
  /\ Len(result.value.files) = 1
  /\ result.value.files[1].operation = "update"
  /\ result.value.files[1].originalContent = result.value.files[1].proposedContent

\* the scan request and the first cron runner do keep the rule
noDiffNoProposalWhereFiltered ==
  (result # Null /\ args.caller \in {"status", "cron"}) =>
    /\ \A k \in 1..Len(result.value.files) :
         beforeOf(result.value.files[k]) # result.value.files[k].proposedContent
    /\ result.value.created =>
         \E k \in 1..Len(result.value.files) :
           beforeOf(result.value.files[k]) # result.value.files[k].proposedContent

\* ------------------------------------------------------------ claim C22
\* The review of a stored proposal.  A request is kept in args and its
\* response in result.  The server handler of the approve request is not in
\* the repository's files: Approve is what the client calls and the mock
\* adapter answers.
Respond(op, status) ==
  /\ args' = [op |-> op]
  /\ result' = [value |-> status]

\* what a review request leaves alone: all but the proposal row, the request
\* and its response
reviewFrame ==
  <<pc, docsPaths, limits, hasOpenAI, capEnv, repo, pairVars, tableVars, openaiClient, fetchVars,
    digestVars,
    targetVars, pending, requests, progressVars, scanResult, di, proposalFiles, thrown>>

\* client.js lines 324-333 with mock-adapter.js lines 303-318
Approve ==
  /\ pc = "done" /\ proposalRec # Null
  /\ proposalRec' = [proposalRec EXCEPT !.status = "approved", !.approvedBy = [id |-> "user"],
                                        !.approvedAt = TRUE]
  /\ Respond("approve", 200)
  /\ UNCHANGED reviewFrame

\* reject/route.js lines 66-80
Reject ==
  /\ pc = "done" /\ proposalRec # Null
  /\ IF proposalRec.status # "pending"
     THEN /\ Respond("reject", 400)
          /\ UNCHANGED proposalRec
     ELSE /\ proposalRec' = [proposalRec EXCEPT !.status = "rejected"]
          /\ Respond("reject", 200)
  /\ UNCHANGED reviewFrame

\* publish/route.js lines 146-159 and 161-303: a proposal that is not
\* approved is refused; an approved one is published unless a request to the
\* hosting API fails
Publish ==
  /\ pc = "done" /\ proposalRec # Null
  /\ IF proposalRec.status # "approved"
     THEN /\ Respond("publish", 400)
          /\ UNCHANGED proposalRec
     ELSE \E hostOk \in BOOLEAN :
            IF hostOk
            THEN /\ proposalRec' = [proposalRec EXCEPT !.status = "published"]
                 /\ Respond("publish", 200)
            ELSE /\ Respond("publish", 500)
                 /\ UNCHANGED proposalRec
  /\ UNCHANGED reviewFrame

ReviewWorld ==
  [BaseWorld EXCEPT
     !.docsPaths = {<<>>},
     !.docStates = {Null, A1},
     !.treeResponses = {Listing(<<FPackage>>)},
     !.blobResponses = {Blob(Manifest)},
     !.digestResponses = {LLMError(500, FALSE), DigestJSON},
     !.lookupOutcomes = {"ok"},
     !.autoApprove = BOOLEAN,
     !.ticks = {600}]

SpecReview ==
  Init(ReviewWorld) /\ [][Next(ReviewWorld) \/ Approve \/ Reject \/ Publish]_vars

statusOf(rec) == IF rec = Null THEN "none" ELSE rec.status

\* C22: a proposal is published only after a user approved it, whatever the
\* project settings; publish is refused for every proposal that is not
\* approved; reject is accepted only for pending proposals.
C22_PublishNeedsHumanApproval ==
  /\ [](statusOf(proposalRec) = "published" => proposalRec.approvedBy # Null)
  /\ [][/\ (statusOf(proposalRec') = "published" /\ statusOf(proposalRec) # "published")
             => statusOf(proposalRec) = "approved"
        /\ (args' = [op |-> "publish"] /\ statusOf(proposalRec) # "approved")
             => result' = [value |-> 400] /\ proposalRec' = proposalRec
        /\ (statusOf(proposalRec') = "rejected" /\ statusOf(proposalRec) # "rejected")
             => statusOf(proposalRec) = "pending"
        /\ (args' = [op |-> "reject"] /\ statusOf(proposalRec) # "pending")
             => result' = [value |-> 400] /\ proposalRec' = proposalRec]_vars

\* a proposal created as approved by the project's autoApprove setting was
\* published by the first review request, no user having approved it
C22_Witness ==
  /\ statusOf(proposalRec) = "published"
  /\ proposalRec.approvedBy = Null
  /\ proposalRec.approvedAt
  /\ args = [op |-> "publish"]
  /\ result = [value |-> 200]

\* what the two handlers do keep: only an approved proposal is published,
\* only a pending one rejected, every other request is answered 400
publishAndRejectGuarded ==
  [][/\ (statusOf(proposalRec') = "published" /\ statusOf(proposalRec) # "published")
          => statusOf(proposalRec) = "approved"
     /\ (args' = [op |-> "publish"] /\ statusOf(proposalRec) # "approved")
          => result' = [value |-> 400] /\ proposalRec' = proposalRec
     /\ (statusOf(proposalRec') = "rejected" /\ statusOf(proposalRec) # "rejected")
          => statusOf(proposalRec) = "pending"
     /\ (args' = [op |-> "reject"] /\ statusOf(proposalRec) # "pending")
          => result' = [value |-> 400] /\ proposalRec' = proposalRec]_vars

\* ------------------------------------------------------------ claim C30
\* The scan rows of one project and the handlers that create them: cron
\* invocations (part_006) and manual scan requests (status/route.js). Every
\* await of a handler is a point where another handler may run.
MaxHandlers == 3
HandlerKinds == {"cron", "manual"}

\* part_006 lines 153-162
hasActiveScan(rows) ==
  \E i \in 1..Len(rows) : rows[i].status \in {"pending", "running"}

handlerVars == <<pc, scanVars, callVars, openaiClient, pairVars>>

moveTo(h, at) == handlers' = [handlers EXCEPT ![h].at = at]

\* a cron trigger fires or a user posts a scan request
Invoke ==
  /\ pc = "call" /\ Len(handlers) < MaxHandlers
  /\ \E kind \in HandlerKinds :
       handlers' = Append(handlers, [kind |-> kind, at |-> "start", scan |-> 0])
  /\ UNCHANGED <<scans, handlerVars>>

\* part_006 lines 352-356: the cron loop skips a project with an active scan
CronCheck(h) ==
  /\ h \in DOMAIN handlers
  /\ handlers[h].kind = "cron" /\ handlers[h].at = "start"
  /\ moveTo(h, IF hasActiveScan(scans) THEN "ended" ELSE "checked")
  /\ UNCHANGED <<scans, handlerVars>>

\* part_006 lines 358-381: no token or not due skips the project
CronDue(h) ==
  /\ h \in DOMAIN handlers
  /\ handlers[h].kind = "cron" /\ handlers[h].at = "checked"
  /\ \E token \in BOOLEAN, shouldScan \in BOOLEAN :
       moveTo(h, IF token /\ shouldScan THEN "due" ELSE "ended")
  /\ UNCHANGED <<scans, handlerVars>>

\* status/route.js lines 150-180: a request without a token is answered 401;
\* no test of the project's scans precedes the creation
ManualAuth(h) ==
  /\ h \in DOMAIN handlers
  /\ handlers[h].kind = "manual" /\ handlers[h].at = "start"
  /\ \E token \in BOOLEAN : moveTo(h, IF token THEN "due" ELSE "ended")
  /\ UNCHANGED <<scans, handlerVars>>

\* part_006 lines 184-205 and status/route.js lines 182-196
CreateScan(h) ==
  /\ h \in DOMAIN handlers
  /\ handlers[h].at = "due"
  /\ scans' = Append(scans, [status |-> "running", source |-> handlers[h].kind])
  /\ handlers' = [handlers EXCEPT ![h].at = "running", ![h].scan = Len(scans) + 1]
  /\ UNCHANGED handlerVars

\* part_006 lines 285-331 and status/route.js lines 285-345: the try block
\* ends with the row completed, the catch block with the row failed
EndScan(h) ==
  /\ h \in DOMAIN handlers
  /\ handlers[h].at = "running"
  /\ \E status \in {"completed", "failed"} :
       scans' = [scans EXCEPT ![handlers[h].scan].status = status]
  /\ moveTo(h, "ended")
  /\ UNCHANGED handlerVars

HandlerStep(h) ==
  \/ CronCheck(h)
  \/ CronDue(h)
  \/ ManualAuth(h)
  \/ CreateScan(h)
  \/ EndScan(h)

InitHandlers ==
  /\ pc = "call"
  /\ NoScan
  /\ args = Null /\ result = Null

NextHandlers == Invoke \/ \E h \in 1..MaxHandlers : HandlerStep(h)

\* a handler that awaits is resumed: the scan it runs returns or throws
SpecHandlers ==
  /\ InitHandlers
  /\ [][NextHandlers]_vars
  /\ \A h \in 1..MaxHandlers : WF_vars(HandlerStep(h))

runningScans == {i \in 1..Len(scans) : scans[i].status = "running"}
created(h) == h \in DOMAIN handlers /\ handlers[h].scan = 0 /\ handlers'[h].scan # 0
ended(i) == i <= Len(scans) /\ scans[i].status \in {"completed", "failed"}

\* C30: at most one scan row of a project is running at any time; a cron
\* invocation creates no scan while the project has a pending or running
\* one; every scan created as running ends completed or failed.
C30_OneRunningScan ==
  /\ [](Cardinality(runningScans) <= 1)
  /\ [][\A h \in 1..MaxHandlers :
          (created(h) /\ handlers[h].kind = "cron") => ~hasActiveScan(scans)]_vars
  /\ \A i \in 1..MaxHandlers : (i \in runningScans) ~> ended(i)

\* two cron invocations passed the test before either created its row: both
\* rows are running
C30_Witness ==
  /\ Cardinality(runningScans) = 2
  /\ \A i \in runningScans : scans[i].source = "cron"
  /\ \A h \in DOMAIN handlers : handlers[h].kind = "cron" /\ handlers[h].at = "running"

\* a manual request created its row while a cron scan was running
manualBesideCron ==
  /\ Len(scans) = 2
  /\ scans[1].source = "cron" /\ scans[1].status = "running"
  /\ scans[2].source = "manual" /\ scans[2].status = "running"

\* what the handlers do keep: a cron invocation that finds an active scan at
\* its test creates none, and every running row ends completed or failed
cronSkipsAndScansEnd ==
  /\ [][\A h \in 1..MaxHandlers :
          (/\ h \in DOMAIN handlers
           /\ handlers[h].kind = "cron" /\ handlers[h].at = "start"
           /\ handlers'[h].at # "start"
           /\ hasActiveScan(scans)) => handlers'[h].at = "ended" /\ scans' = scans]_vars
  /\ \A h \in 1..MaxHandlers :
       [](h \in DOMAIN handlers /\ handlers[h].at = "ended" /\ handlers[h].scan # 0
            => ended(handlers[h].scan))
  /\ \A i \in 1..MaxHandlers : (i \in runningScans) ~> ended(i)
====
